---- MODULE Spec2Model ----
(***************************************************************************)
(* Model of the mac-powermetrics-exporter collectors: the vm_stat          *)
(* collector (internal/collector/vmstat.go), the powermetrics collector    *)
(* (internal/collector/powermetrics.go), the macmon collector              *)
(* (internal/collector/macmon.go) and the server that registers the first  *)
(* two.  Text is modelled character by character: a capture is a sequence  *)
(* of lines, a line is a string, and the Go string functions the           *)
(* collectors call are operators over strings.  A line of macmon is a JSON *)
(* value.                                                                  *)
(*                                                                         *)
(* A float64 value is modelled as a decimal [m, e] that stands for         *)
(* (m / 100) * 10^e: m is the value in hundredths (12.5 is m = 1250) and   *)
(* e counts the multiplications by ten, so that a frequency in Hz, which   *)
(* exceeds the integers of the model checker, is still exact.  This is     *)
(* exact for every number text of the captures below, which carry at most  *)
(* two fractional digits.                                                  *)
(***************************************************************************)
EXTENDS Integers, Sequences, FiniteSets, TLC

VARIABLES
    osPageSize,     \* syscall.Getpagesize() of the host
    vmPc,           \* position of VmStatCollector.Collect
    vmFail,         \* err != nil after cmd.Run() of vm_stat
    vmOut,          \* out.String() of vm_stat, as a sequence of lines
    vmLine,         \* index of the next line scanner.Scan() returns
    valueMap,       \* valueMap of VmStatCollector.Collect
    vmCh,           \* metrics sent on ch by VmStatCollector.Collect
    pmPc,           \* position of PowermetricsCollector.Collect
    pmFail,         \* err != nil after cmd.Run() of powermetrics
    pmOut,          \* out.String() of powermetrics, as a sequence of lines
    pmLine,         \* index of the next line scanner.Scan() returns
    cpuPowerSent,   \* dedup flag of PowermetricsCollector.Collect
    gpuPowerSent,   \* dedup flag of PowermetricsCollector.Collect
    pmCh,           \* metrics sent on ch by PowermetricsCollector.Collect
    mmPc,           \* position of MacMonCollector.Collect
    mmFail,         \* err != nil after cmd.Run() of macmon
    mmOut,          \* out.String() of macmon, as a sequence of lines
    mmLine,         \* index of the next line scanner.Scan() returns
    mmCh,           \* metrics sent on ch by MacMonCollector.Collect
    vmPrev,         \* what the previous call of VmStatCollector.Collect saw and sent
    pmPrev,         \* what the previous call of PowermetricsCollector.Collect saw and sent
    mmPrev,         \* what the previous call of MacMonCollector.Collect saw and sent
    reqPc,          \* position of every request for /metrics the server handles
    procPm,         \* the powermetrics process of every request
    procVm,         \* the vm_stat process of every request
    pmCalls,        \* the local variables of every call of PowermetricsCollector.Collect in flight
    vmCalls,        \* the local variables of every call of VmStatCollector.Collect in flight
    mainPm,         \* what PowermetricsCollector.Collect of main.go was given and sent
    mainVm,         \* what VmStatCollector.Collect of main.go was given and sent
    gatherPc,       \* position of one scrape of the registry
    result          \* metrics gathered by the scrape, once every Collect returned

vars == <<osPageSize, vmPc, vmFail, vmOut, vmLine, valueMap, vmCh,
          pmPc, pmFail, pmOut, pmLine, cpuPowerSent, gpuPowerSent, pmCh,
          mmPc, mmFail, mmOut, mmLine, mmCh,
          vmPrev, pmPrev, mmPrev, reqPc, procPm, procVm, pmCalls, vmCalls,
          mainPm, mainVm,
          gatherPc, result>>

vmVars == <<vmPc, vmFail, vmOut, vmLine, valueMap, vmCh>>
pmVars == <<pmPc, pmFail, pmOut, pmLine, cpuPowerSent, gpuPowerSent, pmCh>>
mmVars == <<mmPc, mmFail, mmOut, mmLine, mmCh>>
prevVars == <<vmPrev, pmPrev, mmPrev>>
reqVars == <<reqPc, procPm, procVm>>
callVars == <<pmCalls, vmCalls>>
mainVars == <<mainPm, mainVm>>

----------------------------------------------------------------------------
(* Bounds *)

MaxVmLines == 2
MaxPmLines == 2
MaxScrapeLines == 2
MaxMmLines == 2
MaxCycleLines == 2
MaxOrderLines == 2
MaxLiveLines == 2
MaxKeyLines == 2
MaxTokenLines == 2
MaxRequests == 2

----------------------------------------------------------------------------
(* Go string functions *)

Char(s, i) == SubSeq(s, i, i)

\* strings.Index, 1-based; 0 when sub does not occur
Index(s, sub) ==
    LET I == {i \in 1..(Len(s) - Len(sub) + 1) : SubSeq(s, i, i + Len(sub) - 1) = sub}
    IN  IF I = {} THEN 0 ELSE CHOOSE i \in I : \A j \in I : i <= j

Contains(s, sub) == Index(s, sub) # 0

IsSpace(c) == c \in {" ", "\t"}

RECURSIVE TrimLeftSpace(_)
TrimLeftSpace(s) ==
    IF Len(s) > 0 /\ IsSpace(Char(s, 1)) THEN TrimLeftSpace(Tail(s)) ELSE s

RECURSIVE TrimRightSpace(_)
TrimRightSpace(s) ==
    IF Len(s) > 0 /\ IsSpace(Char(s, Len(s)))
    THEN TrimRightSpace(SubSeq(s, 1, Len(s) - 1)) ELSE s

TrimSpace(s) == TrimRightSpace(TrimLeftSpace(s))

\* strings.TrimRight(s, cutset) for a one-character cutset
RECURSIVE TrimRight(_, _)
TrimRight(s, c) ==
    IF Len(s) > 0 /\ Char(s, Len(s)) = c
    THEN TrimRight(SubSeq(s, 1, Len(s) - 1), c) ELSE s

HasSuffix(s, suf) ==
    Len(suf) <= Len(s) /\ SubSeq(s, Len(s) - Len(suf) + 1, Len(s)) = suf

TrimSuffix(s, suf) ==
    IF HasSuffix(s, suf) THEN SubSeq(s, 1, Len(s) - Len(suf)) ELSE s

\* SplitN2 with a fault: splits at the last separator
SplitN2_last(s, sep) ==
    LET I == {i \in 1..(Len(s) - Len(sep) + 1) : SubSeq(s, i, i + Len(sep) - 1) = sep}
        l == CHOOSE i \in I : \A j \in I : j <= i
    IN  IF I = {} THEN <<s>>
        ELSE <<SubSeq(s, 1, l - 1), SubSeq(s, l + Len(sep), Len(s))>>

\* strings.SplitN(s, sep, 2)
SplitN2(s, sep) ==
    LET i == Index(s, sep)
    IN  IF i = 0 THEN <<s>>
        ELSE <<SubSeq(s, 1, i - 1), SubSeq(s, i + Len(sep), Len(s))>>

\* length of the longest prefix of s without white space
RECURSIVE WordLen(_)
WordLen(s) ==
    IF Len(s) = 0 \/ IsSpace(Char(s, 1)) THEN 0 ELSE 1 + WordLen(Tail(s))

\* strings.Fields
RECURSIVE Fields(_)
Fields(s) ==
    LET t == TrimLeftSpace(s)
        n == WordLen(t)
    IN  IF Len(t) = 0 THEN <<>>
        ELSE <<SubSeq(t, 1, n)>> \o Fields(SubSeq(t, n + 1, Len(t)))

Digits == <<"0", "1", "2", "3", "4", "5", "6", "7", "8", "9">>

IsDigit(c) == \E d \in 1..10 : Digits[d] = c

DigitVal(c) == (CHOOSE d \in 1..10 : Digits[d] = c) - 1

AllDigits(s) == \A i \in 1..Len(s) : IsDigit(Char(s, i))

RECURSIVE NatVal(_)
NatVal(s) ==
    IF Len(s) = 0 THEN 0
    ELSE 10 * NatVal(SubSeq(s, 1, Len(s) - 1)) + DigitVal(Char(s, Len(s)))

\* the fractional digits of a number text, in hundredths
FracVal(s) ==
    IF Len(s) = 0 THEN 0
    ELSE IF Len(s) = 1 THEN 10 * DigitVal(Char(s, 1))
    ELSE 10 * DigitVal(Char(s, 1)) + DigitVal(Char(s, 2))

\* the float64 of m hundredths
Num(m) == [m |-> m, e |-> 0]

\* float64(n) for an integer n
Float(n) == Num(n * 100)

\* v * 1000000
TimesMillion(v) == IF v.m = 0 THEN v ELSE [m |-> v.m, e |-> v.e + 6]

\* strconv.ParseFloat(s, 64) on decimal texts: an optional sign, digits, an
\* optional point and digits, at least one digit.  ok is err == nil.
\* (Exponents, hexadecimal floats, "inf" and "nan" do not occur in the
\* captures of this model.)
ParseFloat(s) ==
    LET signed == Len(s) > 0 /\ Char(s, 1) \in {"+", "-"}
        body   == IF signed THEN Tail(s) ELSE s
        dot    == Index(body, ".")
        ip     == IF dot = 0 THEN body ELSE SubSeq(body, 1, dot - 1)
        fp     == IF dot = 0 THEN "" ELSE SubSeq(body, dot + 1, Len(body))
        ok     == AllDigits(ip) /\ AllDigits(fp) /\ Len(ip) + Len(fp) > 0
        mag    == 100 * NatVal(ip) + FracVal(fp)
    IN  IF ok THEN [ok |-> TRUE, val |-> Num(IF signed /\ Char(s, 1) = "-" THEN 0 - mag ELSE mag)]
        ELSE [ok |-> FALSE, val |-> Num(0)]

\* prometheus.MustNewConstMetric(desc, valueType, value, labelValues...)
MustNewConstMetric(desc, valueType, value, labelValues) ==
    [name |-> desc, kind |-> valueType, value |-> value, labels |-> labelValues]

GaugeValue == "gauge"
CounterValue == "counter"

----------------------------------------------------------------------------
(* VmStatCollector *)

\* NewVmStatCollector: the descriptor held by each field
NewVmStatCollector ==
    [freePages        |-> "vmstat_pages_free_count",
     activePages      |-> "vmstat_pages_active_count",
     inactivePages    |-> "vmstat_pages_inactive_count",
     speculativePages |-> "vmstat_pages_speculative_count",
     throttledPages   |-> "vmstat_pages_throttled_count",
     wiredPages       |-> "vmstat_pages_wired_count",
     purgeablePages   |-> "vmstat_pages_purgeable_count",
     copyOnWrite      |-> "vmstat_pages_cow_faults_total",
     zeroFilled       |-> "vmstat_pages_zero_filled_total",
     reactivated      |-> "vmstat_pages_reactivated_total",
     purged           |-> "vmstat_pages_purged_total",
     fileBacked       |-> "vmstat_pages_file_backed_count",
     anonymous        |-> "vmstat_pages_anonymous_count",
     uncompressed     |-> "vmstat_pages_uncompressed_total",
     compressor       |-> "vmstat_pages_compressor_count",
     decompressed     |-> "vmstat_pages_decompressed_total",
     compressed       |-> "vmstat_pages_compressed_total",
     pageIns          |-> "vmstat_page_ins_total",
     pageOuts         |-> "vmstat_page_outs_total",
     faults           |-> "vmstat_faults_total",
     swapIns          |-> "vmstat_swap_ins_total",
     swapOuts         |-> "vmstat_swap_outs_total",
     pageSize         |-> "vmstat_page_size_bytes"]

\* the descriptors in the order VmStatCollector.Describe sends them
\* VmDescribe with a fault: the page size descriptor is not declared
VmDescribe_nopagesize ==
    LET c == NewVmStatCollector
    IN  <<c.freePages, c.activePages, c.inactivePages, c.speculativePages,
          c.throttledPages, c.wiredPages, c.purgeablePages, c.copyOnWrite,
          c.zeroFilled, c.reactivated, c.purged, c.fileBacked, c.anonymous,
          c.uncompressed, c.compressor, c.decompressed, c.compressed, c.pageIns,
          c.pageOuts, c.faults, c.swapIns, c.swapOuts>>

VmDescribe ==
    LET c == NewVmStatCollector
    IN  <<c.freePages, c.activePages, c.inactivePages, c.speculativePages,
          c.throttledPages, c.wiredPages, c.purgeablePages, c.copyOnWrite,
          c.zeroFilled, c.reactivated, c.purged, c.fileBacked, c.anonymous,
          c.uncompressed, c.compressor, c.decompressed, c.compressed, c.pageIns,
          c.pageOuts, c.faults, c.swapIns, c.swapOuts, c.pageSize>>

\* the lookups of Collect, in the order of the code
VmRules ==
    << [key |-> "Pages free",                 desc |-> NewVmStatCollector.freePages,        kind |-> GaugeValue],
       [key |-> "Pages active",               desc |-> NewVmStatCollector.activePages,      kind |-> GaugeValue],
       [key |-> "Pages inactive",             desc |-> NewVmStatCollector.inactivePages,    kind |-> GaugeValue],
       [key |-> "Pages speculative",          desc |-> NewVmStatCollector.speculativePages, kind |-> GaugeValue],
       [key |-> "Pages throttled",            desc |-> NewVmStatCollector.throttledPages,   kind |-> GaugeValue],
       [key |-> "Pages wired down",           desc |-> NewVmStatCollector.wiredPages,       kind |-> GaugeValue],
       [key |-> "Pages purgeable",            desc |-> NewVmStatCollector.purgeablePages,   kind |-> GaugeValue],
       [key |-> "Copy-on-writes",             desc |-> NewVmStatCollector.copyOnWrite,      kind |-> CounterValue],
       [key |-> "Pages zero filled",          desc |-> NewVmStatCollector.zeroFilled,       kind |-> CounterValue],
       [key |-> "Pages reactivated",          desc |-> NewVmStatCollector.reactivated,      kind |-> CounterValue],
       [key |-> "Pages purged",               desc |-> NewVmStatCollector.purged,           kind |-> CounterValue],
       [key |-> "File-backed pages",          desc |-> NewVmStatCollector.fileBacked,       kind |-> GaugeValue],
       [key |-> "Anonymous pages",            desc |-> NewVmStatCollector.anonymous,        kind |-> GaugeValue],
       [key |-> "Pages stored in compressor", desc |-> NewVmStatCollector.compressor,       kind |-> GaugeValue],
       [key |-> "Pages decompressed",         desc |-> NewVmStatCollector.decompressed,     kind |-> CounterValue],
       [key |-> "Pages compressed",           desc |-> NewVmStatCollector.compressed,       kind |-> CounterValue],
       [key |-> "Pageins",                    desc |-> NewVmStatCollector.pageIns,          kind |-> CounterValue],
       [key |-> "Pageouts",                   desc |-> NewVmStatCollector.pageOuts,         kind |-> CounterValue],
       [key |-> "Swapins",                    desc |-> NewVmStatCollector.swapIns,          kind |-> CounterValue],
       [key |-> "Swapouts",                   desc |-> NewVmStatCollector.swapOuts,         kind |-> CounterValue],
       [key |-> "Page faults",                desc |-> NewVmStatCollector.faults,           kind |-> CounterValue] >>

\* VmLookup with a fault: every metric is sent as a gauge
VmLookup_gauge(vm, rule) ==
    IF rule.key \in DOMAIN vm
    THEN <<MustNewConstMetric(rule.desc, GaugeValue, vm[rule.key], <<>>)>>
    ELSE <<>>

\* VmLookup with a fault: an absent key is filled with zero
VmLookup_zerofill(vm, rule) ==
    IF rule.key \in DOMAIN vm
    THEN <<MustNewConstMetric(rule.desc, rule.kind, vm[rule.key], <<>>)>>
    ELSE <<MustNewConstMetric(rule.desc, rule.kind, Num(0), <<>>)>>

\* if val, ok := valueMap[key]; ok { ch <- ... }
VmLookup(vm, rule) ==
    IF rule.key \in DOMAIN vm
    THEN <<MustNewConstMetric(rule.desc, rule.kind, vm[rule.key], <<>>)>>
    ELSE <<>>

\* the metrics sent by the lookups 1..n of Collect
RECURSIVE VmMapUpTo(_, _)
VmMapUpTo(vm, n) ==
    IF n = 0 THEN <<>> ELSE VmMapUpTo(vm, n - 1) \o VmLookup(vm, VmRules[n])

\* VmPageSizeMetric with a fault: the page size metric is left out
VmPageSizeMetric_none(ps) == <<>>

\* ch <- MustNewConstMetric(collector.pageSize, GaugeValue, float64(pageSize))
VmPageSizeMetric(ps) ==
    <<MustNewConstMetric(NewVmStatCollector.pageSize, GaugeValue, Float(ps), <<>>)>>

\* MapPut with a fault: the first value of a key stays
MapPut_first(m, k, v) == [x \in DOMAIN m \cup {k} |-> IF x \in DOMAIN m THEN m[x] ELSE v]

\* valueMap[key] = value
MapPut(m, k, v) == [x \in DOMAIN m \cup {k} |-> IF x = k THEN v ELSE m[x]]

EmptyMap == [x \in {} |-> 0]

\* VmParseLine with a fault: the key keeps its white space
VmParseLine_notrim(vm, line) ==
    LET parts    == SplitN2(line, ":")
        key      == parts[1]
        valueStr == TrimRight(TrimSpace(parts[2]), ".")
        parsed   == ParseFloat(valueStr)
    IN  IF Len(parts) # 2 THEN vm
        ELSE IF ~parsed.ok THEN vm
        ELSE MapPut(vm, key, parsed.val)

\* the body of the scanner loop of VmStatCollector.Collect for one line
VmParseLine(vm, line) ==
    LET parts    == SplitN2(line, ":")
        key      == TrimSpace(parts[1])
        valueStr == TrimRight(TrimSpace(parts[2]), ".")
        parsed   == ParseFloat(valueStr)
    IN  IF Len(parts) # 2 THEN vm
        ELSE IF ~parsed.ok THEN vm
        ELSE MapPut(vm, key, parsed.val)

\* page sizes of the hosts the exporter runs on (Intel, Apple silicon)
PageSizes == {4096, 16384}

\* the texts a vm_stat capture is made of
VmKeyTexts == {"Pages free", "Pages purgeable", "Pageins", "Pages uncompressed"}
VmNumTexts == {"7", "0", "3.5"}
VmBadTexts == {"x", "", "1:2", "(page size of 4096 bytes)"}

\* a well-formed vm_stat line "<key>: <number>." with its white space
VmWellFormed(t) == t.ind \o t.k \o t.post \o ":" \o t.pad \o t.n \o "."

VmGoodTuples ==
    [ind : {""}, k : VmKeyTexts, post : {""}, pad : {" "}, n : VmNumTexts]
    \cup {[ind |-> "  ", k |-> "Pages free", post |-> "", pad |-> "\t ", n |-> "12"],
          [ind |-> "", k |-> "Pageins", post |-> " ", pad |-> "", n |-> "7"]}

VmGoodLines == {VmWellFormed(t) : t \in VmGoodTuples}

VmOddLines ==
    {"Pages free: " \o b \o "." : b \in VmBadTexts}
    \cup {"Mach Virtual Memory Statistics", "", "Pages purgeable 7.",
          "Pages free: 9", "Pages free:9...", "a: Pageins: 5."}

VmLines == VmGoodLines \cup VmOddLines

Captures(lines, n) == UNION {[1..k -> lines] : k \in 0..n}

\* VmCall with a fault: valueMap outlives the call
VmCall_keepmap ==
    /\ vmPc \in {"idle", "done"}
    /\ vmPc' = "run"
    /\ vmCh' = VmPageSizeMetric(osPageSize)
    /\ vmFail' = FALSE
    /\ vmOut' = <<>>
    /\ vmLine' = 1
    /\ valueMap' = valueMap

\* Collect is entered: the page size metric is sent before vm_stat runs
VmCall ==
    /\ vmPc \in {"idle", "done"}
    /\ vmPc' = "run"
    /\ vmCh' = VmPageSizeMetric(osPageSize)
    /\ vmFail' = FALSE
    /\ vmOut' = <<>>
    /\ vmLine' = 1
    /\ valueMap' = EmptyMap

\* cmd.Run() fails: the error is logged and Collect returns
VmRunFail ==
    /\ vmPc = "run"
    /\ vmFail' = TRUE
    /\ vmPc' = "done"
    /\ UNCHANGED <<vmOut, vmLine, valueMap, vmCh>>

\* cmd.Run() succeeds with a capture
VmRunOk(caps) ==
    /\ vmPc = "run"
    /\ \E cap \in caps : vmOut' = cap
    /\ vmPc' = "scan"
    /\ UNCHANGED <<vmFail, vmLine, valueMap, vmCh>>

\* one iteration of the scanner loop
VmScanLine ==
    /\ vmPc = "scan"
    /\ vmLine <= Len(vmOut)
    /\ valueMap' = VmParseLine(valueMap, vmOut[vmLine])
    /\ vmLine' = vmLine + 1
    /\ UNCHANGED <<vmPc, vmFail, vmOut, vmCh>>

\* the scanner is exhausted: the lookups send their metrics, Collect returns
VmMap ==
    /\ vmPc = "scan"
    /\ vmLine > Len(vmOut)
    /\ vmCh' = vmCh \o VmMapUpTo(valueMap, Len(VmRules))
    /\ vmPc' = "done"
    /\ UNCHANGED <<vmFail, vmOut, vmLine, valueMap>>

----------------------------------------------------------------------------
(* PowermetricsCollector *)

\* NewPowermetricsCollector: the descriptor held by each field
NewPowermetricsCollector ==
    [cpuFrequency       |-> "powermetrics_cpu_frequency_hertz",
     cpuTemperature     |-> "powermetrics_cpu_temperature_celsius",
     cpuPower           |-> "powermetrics_cpu_power_milliwatts",
     gpuPower           |-> "powermetrics_gpu_power_milliwatts",
     cpuActiveResidency |-> "powermetrics_cpu_active_residency_percent",
     cpuIdleResidency   |-> "powermetrics_cpu_idle_residency_percent",
     gpuActiveResidency |-> "powermetrics_gpu_active_residency_percent",
     gpuIdleResidency   |-> "powermetrics_gpu_idle_residency_percent"]

\* the descriptors in the order PowermetricsCollector.Describe sends them
PmDescribe ==
    LET c == NewPowermetricsCollector
    IN  <<c.cpuFrequency, c.cpuTemperature, c.cpuPower, c.gpuPower,
          c.cpuActiveResidency, c.cpuIdleResidency, c.gpuActiveResidency,
          c.gpuIdleResidency>>

\* the variable labels NewDesc is given for a descriptor: "core" for the
\* three per-core descriptors, "sensor_id" for the temperature, none else
VariableLabels(desc) ==
    IF desc \in {NewPowermetricsCollector.cpuFrequency,
                 NewPowermetricsCollector.cpuActiveResidency,
                 NewPowermetricsCollector.cpuIdleResidency}
    THEN <<"core">>
    ELSE IF desc = NewPowermetricsCollector.cpuTemperature THEN <<"sensor_id">>
    ELSE <<>>

\* a character that stands for a byte that is no valid UTF-8, such as 0xFF:
\* bufio.Scanner, strings.Fields and fmt.Sprintf pass it on as it is
InvalidByte == "#"

\* utf8.ValidString(s)
ValidString(s) == ~Contains(s, InvalidByte)

\* err != nil of prometheus.NewConstMetric: the label values are not as many
\* as the variable labels of the descriptor, or one of them is no valid UTF-8
NewConstMetricErr(desc, labelValues) ==
    \/ Len(labelValues) # Len(VariableLabels(desc))
    \/ \E i \in 1..Len(labelValues) : ~ValidString(labelValues[i])

\* the first metric of a line whose construction fails
FirstErr(out) ==
    CHOOSE i \in 1..Len(out) :
        /\ NewConstMetricErr(out[i].name, out[i].labels)
        /\ \A j \in 1..(i - 1) : ~NewConstMetricErr(out[j].name, out[j].labels)

MinOf(S) == CHOOSE i \in S : \A j \in S : i <= j
MaxOf(S) == CHOOSE i \in S : \A j \in S : j <= i

\* the indexes i of parts with parts[i] = word and i+1 < len(parts) (0-based)
Followed(parts, word) == {i \in 1..(Len(parts) - 1) : parts[i] = word}

\* CpuPowerGuard with a fault: the dedup flag is not consulted
CpuPowerGuard_nodedup(line, cpuSent, gpuSent) ==
    Contains(line, "CPU Power:") /\ Contains(line, "mW")

\* !cpuPowerSent && Contains(line, "CPU Power:") && Contains(line, "mW")
CpuPowerGuard(line, cpuSent, gpuSent) ==
    ~cpuSent /\ Contains(line, "CPU Power:") /\ Contains(line, "mW")

\* GpuPowerGuard with a fault: one flag is shared by both power metrics
GpuPowerGuard_shared(line, cpuSent, gpuSent) ==
    ~cpuSent /\ ~gpuSent /\ Contains(line, "GPU Power:") /\ Contains(line, "mW")

\* !gpuPowerSent && Contains(line, "GPU Power:") && Contains(line, "mW")
GpuPowerGuard(line, cpuSent, gpuSent) ==
    ~gpuSent /\ Contains(line, "GPU Power:") /\ Contains(line, "mW")

\* the loop over strings.Fields(line) of a power block: the token after the
\* first "Power:" that has a successor is parsed, then the loop breaks
PowerScan(line, desc) ==
    LET parts == Fields(line)
        I     == Followed(parts, "Power:")
        p     == ParseFloat(parts[MinOf(I) + 1])
    IN  IF I = {} THEN [out |-> <<>>, sent |-> FALSE]
        ELSE IF p.ok
        THEN [out |-> <<MustNewConstMetric(desc, GaugeValue, p.val, <<>>)>>, sent |-> TRUE]
        ELSE [out |-> <<>>, sent |-> FALSE]

\* the CPU power block
CpuPowerBlock(line, cpuSent, gpuSent) ==
    IF CpuPowerGuard(line, cpuSent, gpuSent)
    THEN PowerScan(line, NewPowermetricsCollector.cpuPower)
    ELSE [out |-> <<>>, sent |-> cpuSent]

\* the GPU power block
GpuPowerBlock(line, cpuSent, gpuSent) ==
    IF GpuPowerGuard(line, cpuSent, gpuSent)
    THEN PowerScan(line, NewPowermetricsCollector.gpuPower)
    ELSE [out |-> <<>>, sent |-> gpuSent]

\* cpuCore after the loop: the token after the last "CPU" that has a successor
CpuCore(parts) ==
    LET I == Followed(parts, "CPU")
    IN  IF I = {} THEN "" ELSE parts[MaxOf(I) + 1]

\* freqValue after the loop: the last parsable token after "frequency:"
FreqValue(parts) ==
    LET I == {i \in Followed(parts, "frequency:") : ParseFloat(parts[i + 1]).ok}
    IN  IF I = {} THEN Num(0) ELSE TimesMillion(ParseFloat(parts[MaxOf(I) + 1]).val)

\* FrequencyGuard with a fault: the unit is not required
FrequencyGuard_nounit(line) ==
    Contains(line, "frequency:") /\ Contains(line, "CPU")

FrequencyGuard(line) ==
    Contains(line, "frequency:") /\ Contains(line, "MHz") /\ Contains(line, "CPU")

\* FrequencyBlock with a fault: the value is sent in MHz
FrequencyBlock_mhz(line) ==
    LET parts     == Fields(line)
        cpuCore   == CpuCore(parts)
        freqValue == Num(FreqValue(parts).m)
    IN  IF FrequencyGuard(line) /\ cpuCore # "" /\ freqValue.m > 0
        THEN <<MustNewConstMetric(NewPowermetricsCollector.cpuFrequency, GaugeValue,
                                  freqValue, <<"cpu" \o cpuCore>>)>>
        ELSE <<>>

\* FrequencyBlock with a fault: a temperature line is parsed as well
FrequencyBlock_temp(line) ==
    LET parts     == Fields(line)
        cpuCore   == CpuCore(parts)
        freqValue == FreqValue(parts)
        T         == {i \in Followed(parts, "temperature:") : ParseFloat(parts[i + 1]).ok}
    IN  IF T # {}
        THEN <<MustNewConstMetric(NewPowermetricsCollector.cpuTemperature, GaugeValue,
                                  ParseFloat(parts[MaxOf(T) + 1]).val, <<"die">>)>>
        ELSE IF FrequencyGuard(line) /\ cpuCore # "" /\ freqValue.m > 0
        THEN <<MustNewConstMetric(NewPowermetricsCollector.cpuFrequency, GaugeValue,
                                  freqValue, <<"cpu" \o cpuCore>>)>>
        ELSE <<>>

\* the CPU frequency block
FrequencyBlock(line) ==
    LET parts     == Fields(line)
        cpuCore   == CpuCore(parts)
        freqValue == FreqValue(parts)
    IN  IF FrequencyGuard(line) /\ cpuCore # "" /\ freqValue.m > 0
        THEN <<MustNewConstMetric(NewPowermetricsCollector.cpuFrequency, GaugeValue,
                                  freqValue, <<"cpu" \o cpuCore>>)>>
        ELSE <<>>

\* residencyValue after the loop: the last parsable token after "residency:",
\* its "%" suffix trimmed
ResidencyValue(parts) ==
    LET I == {i \in Followed(parts, "residency:") :
                  ParseFloat(TrimSuffix(parts[i + 1], "%")).ok}
    IN  IF I = {} THEN Num(0) ELSE ParseFloat(TrimSuffix(parts[MaxOf(I) + 1], "%")).val

\* CoreResidencyBlock with a fault: the sign of the value is not tested
CoreResidencyBlock_nosign(line, marker, desc) ==
    LET parts          == Fields(line)
        cpuCore        == CpuCore(parts)
        residencyValue == ResidencyValue(parts)
    IN  IF /\ Contains(line, marker) /\ Contains(line, "%") /\ Contains(line, "CPU")
           /\ cpuCore # ""
        THEN <<MustNewConstMetric(desc, GaugeValue, residencyValue, <<"cpu" \o cpuCore>>)>>
        ELSE <<>>

\* the per-core active or idle residency block for the marker and descriptor
CoreResidencyBlock(line, marker, desc) ==
    LET parts          == Fields(line)
        cpuCore        == CpuCore(parts)
        residencyValue == ResidencyValue(parts)
    IN  IF /\ Contains(line, marker) /\ Contains(line, "%") /\ Contains(line, "CPU")
           /\ cpuCore # "" /\ residencyValue.m >= 0
        THEN <<MustNewConstMetric(desc, GaugeValue, residencyValue, <<"cpu" \o cpuCore>>)>>
        ELSE <<>>

CpuActiveBlock(line) ==
    CoreResidencyBlock(line, "active residency:", NewPowermetricsCollector.cpuActiveResidency)

CpuIdleBlock(line) ==
    CoreResidencyBlock(line, "idle residency:", NewPowermetricsCollector.cpuIdleResidency)

\* the GPU residency block for the marker and descriptor: the token after the
\* first "residency:" that has a successor is parsed, then the loop breaks
GpuResidencyBlock(line, marker, desc) ==
    LET parts == Fields(line)
        I     == Followed(parts, "residency:")
        p     == ParseFloat(TrimSuffix(parts[MinOf(I) + 1], "%"))
    IN  IF Contains(line, marker) /\ Contains(line, "%") /\ I # {} /\ p.ok
        THEN <<MustNewConstMetric(desc, GaugeValue, p.val, <<>>)>>
        ELSE <<>>

GpuActiveBlock(line) ==
    GpuResidencyBlock(line, "GPU HW active residency:", NewPowermetricsCollector.gpuActiveResidency)

GpuIdleBlock(line) ==
    GpuResidencyBlock(line, "GPU idle residency:", NewPowermetricsCollector.gpuIdleResidency)

\* the body of the scanner loop of PowermetricsCollector.Collect for one
\* line: the metrics it sends and the dedup flags after it
PmScanBody(line, cpuSent, gpuSent) ==
    LET cpu == CpuPowerBlock(line, cpuSent, gpuSent)
        gpu == GpuPowerBlock(line, cpu.sent, gpuSent)
    IN  [out |-> cpu.out \o gpu.out \o FrequencyBlock(line) \o CpuActiveBlock(line)
                 \o CpuIdleBlock(line) \o GpuActiveBlock(line) \o GpuIdleBlock(line),
         cpuSent |-> cpu.sent,
         gpuSent |-> gpu.sent]

\* the lines a powermetrics capture is made of
PmPowerLines ==
    {"CPU Power: 1339 mW", "CPU Power: 7 mW", "CPU Power: x mW", "CPU Power: mW",
     "GPU Power: 6 mW", "GPU Power: x mW", "CPU Power: 7 W", "CPU Power:7mW",
     "Combined Power (CPU + GPU + ANE): 12 mW", "CPU Power: 5 mW GPU Power: 6 mW"}

PmCoreTexts == {"0", "3"}
PmFreqTexts == {"2400", "0"}

PmFrequencyLines ==
    {"CPU " \o n \o " frequency: " \o f \o " MHz" : n \in PmCoreTexts, f \in PmFreqTexts}
    \cup
    {"CPU 1 frequency: x MHz",
     "CPU 2 frequency: 2064", "frequency: 5 MHz",
     "E-Cluster HW active frequency: 1200 MHz"}

PmResidencyLines ==
    {"CPU 0 active residency:  99.96%", "CPU 0 idle residency:   0.04%",
     "CPU 1 active residency: x%", "CPU 1 idle residency: %",
     "CPU 2 active residency: -1%", "CPU 0 active residency: 5", "active residency: 5%",
     "GPU HW active residency:   2.25%", "GPU idle residency:  97.75%",
     "GPU idle residency: x%"}

PmOtherLines == {"", "*** Sampled system activity ***"}

PmLines == PmPowerLines \cup PmFrequencyLines \cup PmResidencyLines \cup PmOtherLines

\* PmCall with a fault: the dedup flags outlive the call
PmCall_keepflags ==
    /\ pmPc \in {"idle", "done"}
    /\ pmPc' = "run"
    /\ pmCh' = <<>>
    /\ pmFail' = FALSE
    /\ pmOut' = <<>>
    /\ pmLine' = 1
    /\ UNCHANGED <<cpuPowerSent, gpuPowerSent>>

\* Collect is entered
PmCall ==
    /\ pmPc \in {"idle", "done"}
    /\ pmPc' = "run"
    /\ pmCh' = <<>>
    /\ pmFail' = FALSE
    /\ pmOut' = <<>>
    /\ pmLine' = 1
    /\ cpuPowerSent' = FALSE
    /\ gpuPowerSent' = FALSE

\* PmRunFail with a fault: a failed run reports a power of zero
PmRunFail_zero ==
    /\ pmPc = "run"
    /\ pmFail' = TRUE
    /\ pmPc' = "done"
    /\ pmCh' = <<MustNewConstMetric(NewPowermetricsCollector.cpuPower, GaugeValue, Num(0), <<>>)>>
    /\ UNCHANGED <<pmOut, pmLine, cpuPowerSent, gpuPowerSent>>

\* PmRunFail with a fault: after the failure the command is started again
PmRunFail_retry ==
    /\ pmPc = "run"
    /\ pmFail' = TRUE
    /\ pmPc' = "run"
    /\ UNCHANGED <<pmOut, pmLine, cpuPowerSent, gpuPowerSent, pmCh>>

\* cmd.Run() fails: the error is logged and Collect returns
PmRunFail ==
    /\ pmPc = "run"
    /\ pmFail' = TRUE
    /\ pmPc' = "done"
    /\ UNCHANGED <<pmOut, pmLine, cpuPowerSent, gpuPowerSent, pmCh>>

\* cmd.Run() succeeds with a capture
PmRunOk(caps) ==
    /\ pmPc = "run"
    /\ \E cap \in caps : pmOut' = cap
    /\ pmPc' = "scan"
    /\ UNCHANGED <<pmFail, pmLine, cpuPowerSent, gpuPowerSent, pmCh>>

\* one iteration of the scanner loop.  MustNewConstMetric panics on the
\* error of NewConstMetric: the metrics before it on the line are sent, and
\* Collect never returns.
PmScanLine ==
    /\ pmPc = "scan"
    /\ pmLine <= Len(pmOut)
    /\ \E r \in {PmScanBody(pmOut[pmLine], cpuPowerSent, gpuPowerSent)} :
           /\ cpuPowerSent' = r.cpuSent
           /\ gpuPowerSent' = r.gpuSent
           /\ IF \A i \in 1..Len(r.out) : ~NewConstMetricErr(r.out[i].name, r.out[i].labels)
              THEN /\ pmCh' = pmCh \o r.out
                   /\ pmLine' = pmLine + 1
                   /\ pmPc' = pmPc
              ELSE /\ pmCh' = pmCh \o SubSeq(r.out, 1, FirstErr(r.out) - 1)
                   /\ pmLine' = pmLine
                   /\ pmPc' = "panic"
    /\ UNCHANGED <<pmFail, pmOut>>

\* the scanner is exhausted: Collect returns
PmReturn ==
    /\ pmPc = "scan"
    /\ pmLine > Len(pmOut)
    /\ pmPc' = "done"
    /\ UNCHANGED <<pmFail, pmOut, pmLine, cpuPowerSent, gpuPowerSent, pmCh>>

----------------------------------------------------------------------------
(* The server: both collectors are registered, a scrape calls each Collect *)

\* the lines of the captures of a whole scrape
ScrapePmLines ==
    {"CPU Power: 7 mW", "GPU Power: x mW", "CPU 3 frequency: 2400 MHz"}

ScrapeVmLines ==
    {"Pages free: 7.", "Pageins: 0.", "Mach Virtual Memory Statistics"}

\* GatherStart with a fault: the macmon collector is registered as well
GatherStart_mm ==
    /\ gatherPc \in {"idle", "done"}
    /\ gatherPc' = "collecting"
    /\ PmCall
    /\ VmCall
    /\ mmPc' = "run" /\ mmCh' = <<>> /\ mmFail' = FALSE /\ mmOut' = <<>> /\ mmLine' = 1
    /\ result' = <<>>
    /\ UNCHANGED <<osPageSize, prevVars, reqVars, callVars, mainVars>>

\* a scrape begins: the registry calls Collect of every registered collector
GatherStart ==
    /\ gatherPc \in {"idle", "done"}
    /\ gatherPc' = "collecting"
    /\ PmCall
    /\ VmCall
    /\ result' = <<>>
    /\ UNCHANGED <<osPageSize, mmVars, prevVars, reqVars, callVars, mainVars>>

\* GatherEnd with a fault: the collectors are taken in the other order
GatherEnd_vmfirst ==
    /\ gatherPc = "collecting"
    /\ pmPc = "done"
    /\ vmPc = "done"
    /\ gatherPc' = "done"
    /\ result' = vmCh \o pmCh
    /\ UNCHANGED <<osPageSize, vmVars, pmVars, mmVars, prevVars, reqVars, callVars, mainVars>>

\* every Collect has returned: the scrape is answered
GatherEnd ==
    /\ gatherPc = "collecting"
    /\ pmPc = "done"
    /\ vmPc = "done"
    /\ gatherPc' = "done"
    /\ result' = pmCh \o vmCh
    /\ UNCHANGED <<osPageSize, vmVars, pmVars, mmVars, prevVars, reqVars, callVars, mainVars>>

\* no call of Collect has returned yet
NoCall == [valid |-> FALSE, fail |-> FALSE, out |-> <<>>, ch |-> <<>>]

\* the requests for /metrics the server may handle at a time
Requests == 1..MaxRequests

\* two calls of Collect on one collector
Calls == {"a", "b"}

\* the local variables of a call of PowermetricsCollector.Collect that has
\* not begun
PmLocals ==
    [pc |-> "idle", fail |-> FALSE, out |-> <<>>, line |-> 1,
     cpuPowerSent |-> FALSE, gpuPowerSent |-> FALSE, ch |-> <<>>]

\* the local variables of a call of VmStatCollector.Collect that has not begun
VmLocals ==
    [pc |-> "idle", fail |-> FALSE, out |-> <<>>, line |-> 1,
     valueMap |-> EmptyMap, ch |-> <<>>]

Init ==
    /\ osPageSize \in PageSizes
    /\ vmPc = "idle" /\ vmFail = FALSE /\ vmOut = <<>> /\ vmLine = 1
    /\ valueMap = EmptyMap /\ vmCh = <<>>
    /\ pmPc = "idle" /\ pmFail = FALSE /\ pmOut = <<>> /\ pmLine = 1
    /\ cpuPowerSent = FALSE /\ gpuPowerSent = FALSE /\ pmCh = <<>>
    /\ mmPc = "idle" /\ mmFail = FALSE /\ mmOut = <<>> /\ mmLine = 1 /\ mmCh = <<>>
    /\ vmPrev = NoCall /\ pmPrev = NoCall /\ mmPrev = NoCall
    /\ reqPc = [r \in Requests |-> "idle"]
    /\ procPm = [r \in Requests |-> "none"]
    /\ procVm = [r \in Requests |-> "none"]
    /\ pmCalls = [c \in Calls |-> PmLocals]
    /\ vmCalls = [c \in Calls |-> VmLocals]
    /\ mainPm = [valid |-> FALSE, fail |-> FALSE, out |-> <<>>, ch |-> <<>>, panic |-> FALSE]
    /\ mainVm = [valid |-> FALSE, fail |-> FALSE, out |-> <<>>, ch |-> <<>>]
    /\ gatherPc = "idle" /\ result = <<>>

VmFrame == UNCHANGED <<osPageSize, pmVars, mmVars, prevVars, reqVars, callVars, mainVars, gatherPc, result>>
PmFrame == UNCHANGED <<osPageSize, vmVars, mmVars, prevVars, reqVars, callVars, mainVars, gatherPc, result>>
MmFrame == UNCHANGED <<osPageSize, vmVars, pmVars, prevVars, reqVars, callVars, mainVars, gatherPc, result>>

\* VmStatCollector.Collect on its own, over every capture
NextVm ==
    \/ VmCall /\ VmFrame
    \/ VmRunFail /\ VmFrame
    \/ VmRunOk(Captures(VmLines, MaxVmLines)) /\ VmFrame
    \/ VmScanLine /\ VmFrame
    \/ VmMap /\ VmFrame

SpecVm == Init /\ [][NextVm]_vars

\* PowermetricsCollector.Collect on its own, over every capture
NextPm ==
    \/ PmCall /\ PmFrame
    \/ PmRunFail /\ PmFrame
    \/ PmRunOk(Captures(PmLines, MaxPmLines)) /\ PmFrame
    \/ PmScanLine /\ PmFrame
    \/ PmReturn /\ PmFrame

SpecPm == Init /\ [][NextPm]_vars

\* a scrape of the server
Next ==
    \/ GatherStart
    \/ GatherEnd
    \/ gatherPc = "collecting" /\ PmRunFail /\ PmFrame
    \/ gatherPc = "collecting" /\ PmRunOk(Captures(ScrapePmLines, MaxScrapeLines)) /\ PmFrame
    \/ gatherPc = "collecting" /\ PmScanLine /\ PmFrame
    \/ gatherPc = "collecting" /\ PmReturn /\ PmFrame
    \/ gatherPc = "collecting" /\ VmRunFail /\ VmFrame
    \/ gatherPc = "collecting" /\ VmRunOk(Captures(ScrapeVmLines, MaxScrapeLines)) /\ VmFrame
    \/ gatherPc = "collecting" /\ VmScanLine /\ VmFrame
    \/ gatherPc = "collecting" /\ VmMap /\ VmFrame

Spec == Init /\ [][Next]_vars

\* The lines of the captures of a scrape that is followed to its end
LiveLines == {"", "x"}

NextLive ==
    \/ GatherStart
    \/ GatherEnd
    \/ gatherPc = "collecting" /\ PmRunFail /\ PmFrame
    \/ gatherPc = "collecting" /\ PmRunOk(Captures(LiveLines, MaxLiveLines)) /\ PmFrame
    \/ gatherPc = "collecting" /\ PmScanLine /\ PmFrame
    \/ gatherPc = "collecting" /\ PmReturn /\ PmFrame
    \/ gatherPc = "collecting" /\ VmRunFail /\ VmFrame
    \/ gatherPc = "collecting" /\ VmRunOk(Captures(LiveLines, MaxLiveLines)) /\ VmFrame
    \/ gatherPc = "collecting" /\ VmScanLine /\ VmFrame
    \/ gatherPc = "collecting" /\ VmMap /\ VmFrame

\* A scrape whose own steps are taken whenever they can be.  cmd.Run() waits
\* for the command without a deadline: when powermetrics or vm_stat exits is
\* up to the host, so the steps that end a run carry no fairness.
SpecLive ==
    /\ Init /\ [][NextLive]_vars
    /\ WF_vars(GatherEnd)
    /\ WF_vars(gatherPc = "collecting" /\ PmScanLine /\ PmFrame)
    /\ WF_vars(gatherPc = "collecting" /\ PmReturn /\ PmFrame)
    /\ WF_vars(gatherPc = "collecting" /\ VmScanLine /\ VmFrame)
    /\ WF_vars(gatherPc = "collecting" /\ VmMap /\ VmFrame)

----------------------------------------------------------------------------
(* MacMonCollector (internal/collector/macmon.go) *)

\* the descriptors of NewMacMonCollector, by field; none has a label
NewMacMonCollector ==
    [allPower         |-> "macmon_all_power_watts",
     anePower         |-> "macmon_ane_power_watts",
     cpuPower         |-> "macmon_cpu_power_watts",
     gpuPower         |-> "macmon_gpu_power_watts",
     gpuRAMPower      |-> "macmon_gpu_ram_power_watts",
     ramPower         |-> "macmon_ram_power_watts",
     sysPower         |-> "macmon_sys_power_watts",
     cpuTempAvg       |-> "macmon_cpu_temperature_celsius",
     gpuTempAvg       |-> "macmon_gpu_temperature_celsius",
     ecpuFrequency    |-> "macmon_ecpu_frequency_megahertz",
     ecpuUsagePercent |-> "macmon_ecpu_usage_percent",
     pcpuFrequency    |-> "macmon_pcpu_frequency_megahertz",
     pcpuUsagePercent |-> "macmon_pcpu_usage_percent",
     gpuFrequency     |-> "macmon_gpu_frequency_megahertz",
     gpuUsagePercent  |-> "macmon_gpu_usage_percent",
     ramTotalBytes    |-> "macmon_memory_ram_total_bytes",
     ramUsedBytes     |-> "macmon_memory_ram_used_bytes",
     swapTotalBytes   |-> "macmon_memory_swap_total_bytes",
     swapUsedBytes    |-> "macmon_memory_swap_used_bytes"]

\* Describe: the descriptors in the order they are sent
MmDescribe ==
    LET c == NewMacMonCollector
    IN  <<c.allPower, c.anePower, c.cpuPower, c.gpuPower, c.gpuRAMPower, c.ramPower,
          c.sysPower, c.cpuTempAvg, c.gpuTempAvg, c.ecpuFrequency, c.ecpuUsagePercent,
          c.pcpuFrequency, c.pcpuUsagePercent, c.gpuFrequency, c.gpuUsagePercent,
          c.ramTotalBytes, c.ramUsedBytes, c.swapTotalBytes, c.swapUsedBytes>>

\* A line of macmon is modelled after lexical analysis: syntax tells whether
\* the text is a JSON text at all, v is the JSON value it denotes.  A JSON
\* value is a record of one shape: t is its type, n the number in
\* hundredths, a the elements of an array, o the members of an object.
JNum(m) == [t |-> "num", n |-> m, a |-> <<>>, o |-> EmptyMap]
JStr == [t |-> "str", n |-> 0, a |-> <<>>, o |-> EmptyMap]
JNull == [t |-> "null", n |-> 0, a |-> <<>>, o |-> EmptyMap]
JArr(elems) == [t |-> "arr", n |-> 0, a |-> elems, o |-> EmptyMap]
JObj(members) == [t |-> "obj", n |-> 0, a |-> <<>>, o |-> members]

\* json.Unmarshal finds a member for a struct field: a member that is
\* absent or null leaves the field at its zero value
Present(o, k) == k \in DOMAIN o /\ o[k].t # "null"

\* json.Unmarshal into a float64 field
FloatField(o, k) ==
    IF ~Present(o, k) THEN [ok |-> TRUE, val |-> Num(0)]
    ELSE IF o[k].t = "num" THEN [ok |-> TRUE, val |-> Num(o[k].n)]
    ELSE [ok |-> FALSE, val |-> Num(0)]

\* json.Unmarshal into an int64 field: a number with a fraction is an error
IntField(o, k) ==
    IF ~Present(o, k) THEN [ok |-> TRUE, val |-> 0]
    ELSE IF o[k].t = "num" /\ o[k].n % 100 = 0
         THEN [ok |-> TRUE, val |-> o[k].n \div 100]
    ELSE [ok |-> FALSE, val |-> 0]

\* json.Unmarshal into a []float64 field
SliceField(o, k) ==
    IF ~Present(o, k) THEN [ok |-> TRUE, val |-> <<>>]
    ELSE IF o[k].t = "arr" /\ \A i \in 1..Len(o[k].a) : o[k].a[i].t = "num"
         THEN [ok |-> TRUE, val |-> [i \in 1..Len(o[k].a) |-> Num(o[k].a[i].n)]]
    ELSE [ok |-> FALSE, val |-> <<>>]

\* json.Unmarshal into a struct field: the members of the nested object
StructField(o, k) ==
    IF ~Present(o, k) THEN [ok |-> TRUE, val |-> EmptyMap]
    ELSE IF o[k].t = "obj" THEN [ok |-> TRUE, val |-> o[k].o]
    ELSE [ok |-> FALSE, val |-> EmptyMap]

\* json.Unmarshal([]byte(line), &data) for a fresh MacMonOutput: ok is
\* err == nil.  A text that is not JSON and a value of the wrong type for
\* its field are errors; null and absent members keep the zero value;
\* members the struct does not name are ignored.
Unmarshal(line) ==
    LET top  == IF line.syntax /\ line.v.t = "obj" THEN line.v.o ELSE EmptyMap
        temp == StructField(top, "temp")
        mem  == StructField(top, "memory")
        f    == [k \in {"all_power", "ane_power", "cpu_power", "gpu_power",
                        "gpu_ram_power", "ram_power", "sys_power"}
                   |-> FloatField(top, k)]
        t    == [k \in {"cpu_temp_avg", "gpu_temp_avg"} |-> FloatField(temp.val, k)]
        u    == [k \in {"ecpu_usage", "pcpu_usage", "gpu_usage"} |-> SliceField(top, k)]
        m    == [k \in {"ram_total", "ram_usage", "swap_total", "swap_usage"}
                   |-> IntField(mem.val, k)]
    IN  [ok   |-> /\ line.syntax
                  /\ line.v.t \in {"obj", "null"}
                  /\ temp.ok /\ mem.ok
                  /\ \A k \in DOMAIN f : f[k].ok
                  /\ \A k \in DOMAIN t : t[k].ok
                  /\ \A k \in DOMAIN u : u[k].ok
                  /\ \A k \in DOMAIN m : m[k].ok,
         data |-> [AllPower    |-> f["all_power"].val,
                   ANEPower    |-> f["ane_power"].val,
                   CPUPower    |-> f["cpu_power"].val,
                   GPUPower    |-> f["gpu_power"].val,
                   GPURAMPower |-> f["gpu_ram_power"].val,
                   RAMPower    |-> f["ram_power"].val,
                   SysPower    |-> f["sys_power"].val,
                   Temp        |-> [CPUTempAvg |-> t["cpu_temp_avg"].val,
                                    GPUTempAvg |-> t["gpu_temp_avg"].val],
                   ECPUsage    |-> u["ecpu_usage"].val,
                   PCPUsage    |-> u["pcpu_usage"].val,
                   GPUUsage    |-> u["gpu_usage"].val,
                   Memory      |-> [RAMTotal  |-> m["ram_total"].val,
                                    RAMUsage  |-> m["ram_usage"].val,
                                    SwapTotal |-> m["swap_total"].val,
                                    SwapUsage |-> m["swap_usage"].val]]]

\* UsageBlock with a fault: one element is enough
UsageBlock_one(usage, freqDesc, usageDesc) ==
    IF Len(usage) >= 1
    THEN <<MustNewConstMetric(freqDesc, GaugeValue, usage[1], <<>>),
           MustNewConstMetric(usageDesc, GaugeValue, usage[Len(usage)], <<>>)>>
    ELSE <<>>

\* if len(usage) >= 2 { frequency <- usage[0]; usage percent <- usage[1] }
UsageBlock(usage, freqDesc, usageDesc) ==
    IF Len(usage) >= 2
    THEN <<MustNewConstMetric(freqDesc, GaugeValue, usage[1], <<>>),
           MustNewConstMetric(usageDesc, GaugeValue, usage[2], <<>>)>>
    ELSE <<>>

\* the metrics Collect sends for one decoded line, in the order of the code
MmSend(data) ==
    LET c == NewMacMonCollector
    IN  <<MustNewConstMetric(c.allPower, GaugeValue, data.AllPower, <<>>),
          MustNewConstMetric(c.anePower, GaugeValue, data.ANEPower, <<>>),
          MustNewConstMetric(c.cpuPower, GaugeValue, data.CPUPower, <<>>),
          MustNewConstMetric(c.gpuPower, GaugeValue, data.GPUPower, <<>>),
          MustNewConstMetric(c.gpuRAMPower, GaugeValue, data.GPURAMPower, <<>>),
          MustNewConstMetric(c.ramPower, GaugeValue, data.RAMPower, <<>>),
          MustNewConstMetric(c.sysPower, GaugeValue, data.SysPower, <<>>),
          MustNewConstMetric(c.cpuTempAvg, GaugeValue, data.Temp.CPUTempAvg, <<>>),
          MustNewConstMetric(c.gpuTempAvg, GaugeValue, data.Temp.GPUTempAvg, <<>>)>>
        \o UsageBlock(data.ECPUsage, c.ecpuFrequency, c.ecpuUsagePercent)
        \o UsageBlock(data.PCPUsage, c.pcpuFrequency, c.pcpuUsagePercent)
        \o UsageBlock(data.GPUUsage, c.gpuFrequency, c.gpuUsagePercent)
        \o <<MustNewConstMetric(c.ramTotalBytes, GaugeValue, Float(data.Memory.RAMTotal), <<>>),
             MustNewConstMetric(c.ramUsedBytes, GaugeValue, Float(data.Memory.RAMUsage), <<>>),
             MustNewConstMetric(c.swapTotalBytes, GaugeValue, Float(data.Memory.SwapTotal), <<>>),
             MustNewConstMetric(c.swapUsedBytes, GaugeValue, Float(data.Memory.SwapUsage), <<>>)>>

\* MmScanBody with a fault: a line that fails to decode is sent as decoded
MmScanBody_nocheck(line) == MmSend(Unmarshal(line).data)

\* the body of the scanner loop for one line: a line that fails to decode
\* is logged and skipped
MmScanBody(line) ==
    LET r == Unmarshal(line)
    IN  IF ~r.ok THEN <<>> ELSE MmSend(r.data)

\* the lines of the macmon captures
MmSample ==
    [all_power |-> JNum(1250), ane_power |-> JNum(0), cpu_power |-> JNum(700),
     gpu_power |-> JNum(300), gpu_ram_power |-> JNum(50), ram_power |-> JNum(100),
     sys_power |-> JNum(2000),
     temp |-> JObj([cpu_temp_avg |-> JNum(4550), gpu_temp_avg |-> JNum(4000)]),
     ecpu_usage |-> JArr(<<JNum(102000), JNum(25)>>),
     pcpu_usage |-> JArr(<<JNum(300000), JNum(50)>>),
     gpu_usage |-> JArr(<<JNum(33800), JNum(0)>>),
     memory |-> JObj([ram_total |-> JNum(1600), ram_usage |-> JNum(900),
                      swap_total |-> JNum(200), swap_usage |-> JNum(0)]),
     timestamp |-> JStr]

Without(f, k) == [x \in DOMAIN f \ {k} |-> f[x]]

JsonLine(v) == [syntax |-> TRUE, v |-> v]

\* lines json.Unmarshal decodes
MmGoodLines ==
    {JsonLine(JObj(MmSample)),
     JsonLine(JObj(EmptyMap)),
     JsonLine(JNull),
     JsonLine(JObj(Without(MmSample, "all_power"))),
     JsonLine(JObj(MapPut(MmSample, "all_power", JNum(0)))),
     JsonLine(JObj(MapPut(MmSample, "temp", JObj([gpu_temp_avg |-> JNum(4000)])))),
     JsonLine(JObj(Without(MmSample, "memory"))),
     JsonLine(JObj(Without(MmSample, "ecpu_usage"))),
     JsonLine(JObj(MapPut(MmSample, "ecpu_usage", JArr(<<JNum(102000)>>)))),
     JsonLine(JObj(MapPut(MmSample, "pcpu_usage", JArr(<<>>)))),
     JsonLine(JObj(MapPut(MmSample, "gpu_usage", JArr(<<JNum(33800), JNum(1200), JNum(5)>>))))}

\* lines json.Unmarshal rejects: a text that is not JSON (the empty line
\* is one), a string where a number is expected, a fraction where an
\* integer is expected, an array whose element is no number, an array
\* where the object is expected
MmBadLines ==
    {[syntax |-> FALSE, v |-> JNull],
     JsonLine(JObj(MapPut(MmSample, "all_power", JStr))),
     JsonLine(JObj(MapPut(MmSample, "memory",
                          JObj([ram_total |-> JNum(150), ram_usage |-> JNum(900)])))),
     JsonLine(JObj(MapPut(MmSample, "gpu_usage", JArr(<<JNum(33800), JStr>>)))),
     JsonLine(JArr(<<>>))}

MmLines == MmGoodLines \cup MmBadLines

\* Collect is entered
MmCall ==
    /\ mmPc \in {"idle", "done"}
    /\ mmPc' = "run"
    /\ mmCh' = <<>>
    /\ mmFail' = FALSE
    /\ mmOut' = <<>>
    /\ mmLine' = 1

\* cmd.Run() fails: the error is logged and Collect returns
MmRunFail ==
    /\ mmPc = "run"
    /\ mmFail' = TRUE
    /\ mmPc' = "done"
    /\ UNCHANGED <<mmOut, mmLine, mmCh>>

\* cmd.Run() succeeds with a capture
MmRunOk(caps) ==
    /\ mmPc = "run"
    /\ \E cap \in caps : mmOut' = cap
    /\ mmPc' = "scan"
    /\ UNCHANGED <<mmFail, mmLine, mmCh>>

\* one iteration of the scanner loop
MmScanLine ==
    /\ mmPc = "scan"
    /\ mmLine <= Len(mmOut)
    /\ mmCh' = mmCh \o MmScanBody(mmOut[mmLine])
    /\ mmLine' = mmLine + 1
    /\ UNCHANGED <<mmPc, mmFail, mmOut>>

\* the scanner is exhausted: Collect returns
MmReturn ==
    /\ mmPc = "scan"
    /\ mmLine > Len(mmOut)
    /\ mmPc' = "done"
    /\ UNCHANGED <<mmFail, mmOut, mmLine, mmCh>>

\* MacMonCollector.Collect on its own, over every capture
NextMm ==
    \/ MmCall /\ MmFrame
    \/ MmRunFail /\ MmFrame
    \/ MmRunOk(Captures(MmLines, MaxMmLines)) /\ MmFrame
    \/ MmScanLine /\ MmFrame
    \/ MmReturn /\ MmFrame

SpecMm == Init /\ [][NextMm]_vars

----------------------------------------------------------------------------
(* One collector, called again and again: what the previous call saw and  *)
(* sent is kept beside the call that runs                                  *)

\* the lines of the macmon captures of repeated calls
CycleMmLines ==
    {JsonLine(JObj(MmSample)), JsonLine(JObj(EmptyMap)), [syntax |-> FALSE, v |-> JNull]}

\* what a call of Collect that returned saw and sent
Returned(fail, out, ch) == [valid |-> TRUE, fail |-> fail, out |-> out, ch |-> ch]

\* Collect is called, the first time or after it returned
VmCallAgain ==
    /\ VmCall
    /\ vmPrev' = IF vmPc = "done" THEN Returned(vmFail, vmOut, vmCh) ELSE vmPrev

PmCallAgain ==
    /\ PmCall
    /\ pmPrev' = IF pmPc = "done" THEN Returned(pmFail, pmOut, pmCh) ELSE pmPrev

MmCallAgain ==
    /\ MmCall
    /\ mmPrev' = IF mmPc = "done" THEN Returned(mmFail, mmOut, mmCh) ELSE mmPrev

\* the calls of the collector a behaviour is about: the other two stay idle
NextCycles ==
    \/ /\ pmPc = "idle" /\ mmPc = "idle"
       /\ VmCallAgain
       /\ UNCHANGED <<osPageSize, pmVars, mmVars, pmPrev, mmPrev, reqVars, callVars, mainVars, gatherPc, result>>
    \/ VmRunFail /\ VmFrame
    \/ VmRunOk(Captures(ScrapeVmLines, MaxCycleLines)) /\ VmFrame
    \/ VmScanLine /\ VmFrame
    \/ VmMap /\ VmFrame
    \/ /\ vmPc = "idle" /\ mmPc = "idle"
       /\ PmCallAgain
       /\ UNCHANGED <<osPageSize, vmVars, mmVars, vmPrev, mmPrev, reqVars, callVars, mainVars, gatherPc, result>>
    \/ PmRunFail /\ PmFrame
    \/ PmRunOk(Captures(ScrapePmLines, MaxCycleLines)) /\ PmFrame
    \/ PmScanLine /\ PmFrame
    \/ PmReturn /\ PmFrame
    \/ /\ vmPc = "idle" /\ pmPc = "idle"
       /\ MmCallAgain
       /\ UNCHANGED <<osPageSize, vmVars, pmVars, vmPrev, pmPrev, reqVars, callVars, mainVars, gatherPc, result>>
    \/ MmRunFail /\ MmFrame
    \/ MmRunOk(Captures(CycleMmLines, MaxCycleLines)) /\ MmFrame
    \/ MmScanLine /\ MmFrame
    \/ MmReturn /\ MmFrame

SpecCycles == Init /\ [][NextCycles]_vars

----------------------------------------------------------------------------
(* A scrape whose captures carry lines of several metrics in any order *)

OrderPmLines == {"CPU Power: 7 mW", "CPU 3 frequency: 2400 MHz"}

OrderVmLines == {"Pages free: 7.", "Page faults: 7.", "Swapins: 7."}

NextOrder ==
    \/ GatherStart
    \/ GatherEnd
    \/ gatherPc = "collecting" /\ PmRunFail /\ PmFrame
    \/ gatherPc = "collecting" /\ PmRunOk(Captures(OrderPmLines, MaxOrderLines)) /\ PmFrame
    \/ gatherPc = "collecting" /\ PmScanLine /\ PmFrame
    \/ gatherPc = "collecting" /\ PmReturn /\ PmFrame
    \/ gatherPc = "collecting" /\ VmRunFail /\ VmFrame
    \/ gatherPc = "collecting" /\ VmRunOk(Captures(OrderVmLines, MaxOrderLines)) /\ VmFrame
    \/ gatherPc = "collecting" /\ VmScanLine /\ VmFrame
    \/ gatherPc = "collecting" /\ VmMap /\ VmFrame

SpecOrder == Init /\ [][NextOrder]_vars

----------------------------------------------------------------------------
(* Requests for /metrics that overlap: http.ListenAndServe serves every    *)
(* request in a goroutine of its own, and each request makes the registry  *)
(* call Collect of both collectors.  Only the life of the two commands of  *)
(* a request is followed here.                                             *)

OverlapFrame ==
    UNCHANGED <<osPageSize, vmVars, pmVars, mmVars, prevVars, callVars, mainVars, gatherPc, result>>

\* promhttp.Handler() takes a request: nothing in Server.Start limits the
\* requests in flight
ReqStart(r) ==
    /\ reqPc[r] \in {"idle", "done"}
    /\ reqPc' = [reqPc EXCEPT ![r] = "collecting"]
    /\ procPm' = [procPm EXCEPT ![r] = "none"]
    /\ procVm' = [procVm EXCEPT ![r] = "none"]

\* PowermetricsCollector.Collect of the request reaches cmd.Run(): the
\* command is started, no lock is taken before
PmExec(r) ==
    /\ reqPc[r] = "collecting"
    /\ procPm[r] = "none"
    /\ procPm' = [procPm EXCEPT ![r] = "running"]
    /\ UNCHANGED <<reqPc, procVm>>

\* powermetrics exits, with or without an error, and Collect goes on to return
PmExit(r) ==
    /\ procPm[r] = "running"
    /\ \E how \in {"exited", "failed"} : procPm' = [procPm EXCEPT ![r] = how]
    /\ UNCHANGED <<reqPc, procVm>>

\* VmStatCollector.Collect of the request reaches cmd.Run()
VmExec(r) ==
    /\ reqPc[r] = "collecting"
    /\ procVm[r] = "none"
    /\ procVm' = [procVm EXCEPT ![r] = "running"]
    /\ UNCHANGED <<reqPc, procPm>>

\* vm_stat exits, with or without an error, and Collect goes on to return
VmExit(r) ==
    /\ procVm[r] = "running"
    /\ \E how \in {"exited", "failed"} : procVm' = [procVm EXCEPT ![r] = how]
    /\ UNCHANGED <<reqPc, procPm>>

\* both Collect of the request have returned: the request is answered
ReqEnd(r) ==
    /\ reqPc[r] = "collecting"
    /\ procPm[r] \in {"exited", "failed"}
    /\ procVm[r] \in {"exited", "failed"}
    /\ reqPc' = [reqPc EXCEPT ![r] = "done"]
    /\ UNCHANGED <<procPm, procVm>>

NextOverlap ==
    \/ \E r \in Requests : ReqStart(r) /\ OverlapFrame
    \/ \E r \in Requests : PmExec(r) /\ OverlapFrame
    \/ \E r \in Requests : PmExit(r) /\ OverlapFrame
    \/ \E r \in Requests : VmExec(r) /\ OverlapFrame
    \/ \E r \in Requests : VmExit(r) /\ OverlapFrame
    \/ \E r \in Requests : ReqEnd(r) /\ OverlapFrame

SpecOverlap == Init /\ [][NextOverlap]_vars

----------------------------------------------------------------------------
(* Calls of Collect on one collector that overlap: the locals of Collect    *)
(* are kept per call, the channel is the one the caller hands to the call.  *)
(* The two collectors are different structs; the calls on one of them are   *)
(* followed at a time.                                                      *)

MaxCallLines == 2

CallFrame ==
    UNCHANGED <<osPageSize, vmVars, pmVars, mmVars, prevVars, reqVars, mainVars, gatherPc, result>>

\* FlagsOf with a fault: the flags are fields of the collector
FlagsOf_shared(c) == "a"

\* cpuPowerSent, gpuPowerSent := false, false declares the flags in the call
FlagsOf(c) == c

\* PowermetricsCollector.Collect is called: cmd, out and the flags are declared
CallPm(c) ==
    /\ pmCalls[c].pc = "idle"
    /\ \A d \in Calls : vmCalls[d].pc = "idle"
    /\ pmCalls' = [pmCalls EXCEPT ![c].pc = "run",
                                  ![FlagsOf(c)].cpuPowerSent = FALSE,
                                  ![FlagsOf(c)].gpuPowerSent = FALSE]
    /\ UNCHANGED vmCalls

\* cmd.Run() of the call fails
CallPmRunFail(c) ==
    /\ pmCalls[c].pc = "run"
    /\ pmCalls' = [pmCalls EXCEPT ![c].pc = "done", ![c].fail = TRUE]
    /\ UNCHANGED vmCalls

\* cmd.Run() of the call succeeds with a capture
CallPmRunOk(c, caps) ==
    /\ pmCalls[c].pc = "run"
    /\ \E cap \in caps : pmCalls' = [pmCalls EXCEPT ![c].pc = "scan", ![c].out = cap]
    /\ UNCHANGED vmCalls

\* one iteration of the scanner loop of the call
CallPmScanLine(c) ==
    /\ pmCalls[c].pc = "scan"
    /\ pmCalls[c].line <= Len(pmCalls[c].out)
    /\ \E r \in {PmScanBody(pmCalls[c].out[pmCalls[c].line],
                            pmCalls[FlagsOf(c)].cpuPowerSent,
                            pmCalls[FlagsOf(c)].gpuPowerSent)} :
           IF \A i \in 1..Len(r.out) : ~NewConstMetricErr(r.out[i].name, r.out[i].labels)
           THEN pmCalls' = [pmCalls EXCEPT ![c].ch = @ \o r.out,
                                           ![c].line = @ + 1,
                                           ![FlagsOf(c)].cpuPowerSent = r.cpuSent,
                                           ![FlagsOf(c)].gpuPowerSent = r.gpuSent]
           ELSE pmCalls' = [pmCalls EXCEPT ![c].ch = @ \o SubSeq(r.out, 1, FirstErr(r.out) - 1),
                                           ![c].pc = "panic",
                                           ![FlagsOf(c)].cpuPowerSent = r.cpuSent,
                                           ![FlagsOf(c)].gpuPowerSent = r.gpuSent]
    /\ UNCHANGED vmCalls

\* the scanner of the call is exhausted: the call returns
CallPmReturn(c) ==
    /\ pmCalls[c].pc = "scan"
    /\ pmCalls[c].line > Len(pmCalls[c].out)
    /\ pmCalls' = [pmCalls EXCEPT ![c].pc = "done"]
    /\ UNCHANGED vmCalls

\* VmStatCollector.Collect is called: the page size is sent, cmd and out are
\* declared
CallVm(c) ==
    /\ vmCalls[c].pc = "idle"
    /\ \A d \in Calls : pmCalls[d].pc = "idle"
    /\ vmCalls' = [vmCalls EXCEPT ![c].pc = "run", ![c].ch = VmPageSizeMetric(osPageSize)]
    /\ UNCHANGED pmCalls

CallVmRunFail(c) ==
    /\ vmCalls[c].pc = "run"
    /\ vmCalls' = [vmCalls EXCEPT ![c].pc = "done", ![c].fail = TRUE]
    /\ UNCHANGED pmCalls

CallVmRunOk(c, caps) ==
    /\ vmCalls[c].pc = "run"
    /\ \E cap \in caps : vmCalls' = [vmCalls EXCEPT ![c].pc = "scan", ![c].out = cap]
    /\ UNCHANGED pmCalls

\* one iteration of the scanner loop of the call: valueMap is made by the call
CallVmScanLine(c) ==
    /\ vmCalls[c].pc = "scan"
    /\ vmCalls[c].line <= Len(vmCalls[c].out)
    /\ vmCalls' = [vmCalls EXCEPT
                      ![c].valueMap = VmParseLine(@, vmCalls[c].out[vmCalls[c].line]),
                      ![c].line = @ + 1]
    /\ UNCHANGED pmCalls

\* the lookups of the call send their metrics, the call returns
CallVmMap(c) ==
    /\ vmCalls[c].pc = "scan"
    /\ vmCalls[c].line > Len(vmCalls[c].out)
    /\ vmCalls' = [vmCalls EXCEPT
                      ![c].ch = @ \o VmMapUpTo(vmCalls[c].valueMap, Len(VmRules)),
                      ![c].pc = "done"]
    /\ UNCHANGED pmCalls

NextCalls ==
    \/ \E c \in Calls : CallPm(c) /\ CallFrame
    \/ \E c \in Calls : CallPmRunFail(c) /\ CallFrame
    \/ \E c \in Calls : CallPmRunOk(c, Captures(ScrapePmLines, MaxCallLines)) /\ CallFrame
    \/ \E c \in Calls : CallPmScanLine(c) /\ CallFrame
    \/ \E c \in Calls : CallPmReturn(c) /\ CallFrame
    \/ \E c \in Calls : CallVm(c) /\ CallFrame
    \/ \E c \in Calls : CallVmRunFail(c) /\ CallFrame
    \/ \E c \in Calls : CallVmRunOk(c, Captures(ScrapeVmLines, MaxCallLines)) /\ CallFrame
    \/ \E c \in Calls : CallVmScanLine(c) /\ CallFrame
    \/ \E c \in Calls : CallVmMap(c) /\ CallFrame

SpecCalls == Init /\ [][NextCalls]_vars

----------------------------------------------------------------------------
(* VmStatCollector.Collect over captures that carry every key of the lookups *)

\* a line for each key Collect looks up, each with a value of its own, and a
\* line of vm_stat whose key Collect does not look up
VmKeyLines ==
    {"Pages free: 1.", "Pages active: 2.", "Pages inactive: 3.",
     "Pages speculative: 4.", "Pages throttled: 5.", "Pages wired down: 6.",
     "Pages purgeable: 7.", "File-backed pages: 8.", "Anonymous pages: 9.",
     "Pages stored in compressor: 10.", "Copy-on-writes: 11.",
     "Pages zero filled: 12.", "Pages reactivated: 13.", "Pages purged: 14.",
     "Pages decompressed: 15.", "Pages compressed: 16.", "Pageins: 17.",
     "Pageouts: 18.", "Page faults: 19.", "Swapins: 20.", "Swapouts: 21.",
     "Pages occupied by compressor: 22."}

NextVmKeys ==
    \/ VmCall /\ VmFrame
    \/ VmRunFail /\ VmFrame
    \/ VmRunOk(Captures(VmKeyLines, MaxKeyLines)) /\ VmFrame
    \/ VmScanLine /\ VmFrame
    \/ VmMap /\ VmFrame

SpecVmKeys == Init /\ [][NextVmKeys]_vars

----------------------------------------------------------------------------
(* Each collector on its own, over captures that carry a line for every     *)
(* block and every lookup of its Collect                                    *)

MaxDeclLines == 2

DeclVmLines == VmKeyLines \cup {"Pages uncompressed: 23."}

DeclPmLines ==
    {"CPU Power: 7 mW", "GPU Power: 6 mW", "CPU 3 frequency: 2400 MHz",
     "CPU 0 active residency:  99.96%", "CPU 0 idle residency:   0.04%",
     "GPU HW active residency:   2.25%", "GPU idle residency:  97.75%",
     "CPU die temperature: 45.50 C"}

NextDeclared ==
    \/ pmPc = "idle" /\ mmPc = "idle" /\ VmCall /\ VmFrame
    \/ VmRunFail /\ VmFrame
    \/ VmRunOk(Captures(DeclVmLines, MaxDeclLines)) /\ VmFrame
    \/ VmScanLine /\ VmFrame
    \/ VmMap /\ VmFrame
    \/ vmPc = "idle" /\ mmPc = "idle" /\ PmCall /\ PmFrame
    \/ PmRunFail /\ PmFrame
    \/ PmRunOk(Captures(DeclPmLines, MaxDeclLines)) /\ PmFrame
    \/ PmScanLine /\ PmFrame
    \/ PmReturn /\ PmFrame
    \/ vmPc = "idle" /\ pmPc = "idle" /\ MmCall /\ MmFrame
    \/ MmRunFail /\ MmFrame
    \/ MmRunOk(Captures(CycleMmLines, MaxDeclLines)) /\ MmFrame
    \/ MmScanLine /\ MmFrame
    \/ MmReturn /\ MmFrame

SpecDeclared == Init /\ [][NextDeclared]_vars

----------------------------------------------------------------------------
(* The collectors of main.go, the single-file copy of the exporter.  A call *)
(* of Collect of the copy is one step: it is given the outcome and the      *)
(* capture that the call of the package's Collect had, and the pair is      *)
(* followed up to there.                                                    *)

MaxMainLines == 2

\* newPowermetricsCollector and newVmStatCollector of main.go: the descriptor
\* held by each field
MainDescs ==
    [cpuFrequency       |-> "powermetrics_cpu_frequency_hertz",
     cpuTemperature     |-> "powermetrics_cpu_temperature_celsius",
     cpuPower           |-> "powermetrics_cpu_power_milliwatts",
     gpuPower           |-> "powermetrics_gpu_power_milliwatts",
     cpuActiveResidency |-> "powermetrics_cpu_active_residency_percent",
     cpuIdleResidency   |-> "powermetrics_cpu_idle_residency_percent",
     gpuActiveResidency |-> "powermetrics_gpu_active_residency_percent",
     gpuIdleResidency   |-> "powermetrics_gpu_idle_residency_percent",
     freePages        |-> "vmstat_pages_free_count",
     activePages      |-> "vmstat_pages_active_count",
     inactivePages    |-> "vmstat_pages_inactive_count",
     speculativePages |-> "vmstat_pages_speculative_count",
     throttledPages   |-> "vmstat_pages_throttled_count",
     wiredPages       |-> "vmstat_pages_wired_count",
     purgeablePages   |-> "vmstat_pages_purgeable_count",
     copyOnWrite      |-> "vmstat_pages_cow_faults_total",
     zeroFilled       |-> "vmstat_pages_zero_filled_total",
     reactivated      |-> "vmstat_pages_reactivated_total",
     purged           |-> "vmstat_pages_purged_total",
     fileBacked       |-> "vmstat_pages_file_backed_count",
     anonymous        |-> "vmstat_pages_anonymous_count",
     uncompressed     |-> "vmstat_pages_uncompressed_total",
     compressor       |-> "vmstat_pages_compressor_count",
     decompressed     |-> "vmstat_pages_decompressed_total",
     compressed       |-> "vmstat_pages_compressed_total",
     pageIns          |-> "vmstat_page_ins_total",
     pageOuts         |-> "vmstat_page_outs_total",
     faults           |-> "vmstat_faults_total",
     swapIns          |-> "vmstat_swap_ins_total",
     swapOuts         |-> "vmstat_swap_outs_total",
     pageSize         |-> "vmstat_page_size_bytes"]

\* for i, part := range parts with a break: the token after the first word
\* that has a successor is parsed, its suffix trimmed
RECURSIVE MainFirstLoop(_, _, _, _)
MainFirstLoop(parts, i, word, suffix) ==
    IF i > Len(parts) THEN [ok |-> FALSE, val |-> Num(0)]
    ELSE IF parts[i] = word /\ i + 1 <= Len(parts)
    THEN ParseFloat(TrimSuffix(parts[i + 1], suffix))
    ELSE MainFirstLoop(parts, i + 1, word, suffix)

\* for i, part := range parts: cpuCore is assigned at every "CPU" that has a
\* successor
RECURSIVE MainCoreLoop(_, _, _)
MainCoreLoop(parts, i, cpuCore) ==
    IF i > Len(parts) THEN cpuCore
    ELSE MainCoreLoop(parts, i + 1,
                      IF parts[i] = "CPU" /\ i + 1 <= Len(parts) THEN parts[i + 1] ELSE cpuCore)

\* MainValueLoop with a fault: the frequency is left in MHz
RECURSIVE MainValueLoop_mhz(_, _, _, _, _, _)
MainValueLoop_mhz(parts, i, word, suffix, toHz, value) ==
    IF i > Len(parts) THEN value
    ELSE MainValueLoop_mhz(parts, i + 1, word, suffix, toHz,
             IF /\ parts[i] = word /\ i + 1 <= Len(parts)
                /\ ParseFloat(TrimSuffix(parts[i + 1], suffix)).ok
             THEN ParseFloat(TrimSuffix(parts[i + 1], suffix)).val
             ELSE value)

\* for i, part := range parts: the value is assigned at every word whose
\* successor parses, a frequency times 1000000
RECURSIVE MainValueLoop(_, _, _, _, _, _)
MainValueLoop(parts, i, word, suffix, toHz, value) ==
    IF i > Len(parts) THEN value
    ELSE MainValueLoop(parts, i + 1, word, suffix, toHz,
             IF /\ parts[i] = word /\ i + 1 <= Len(parts)
                /\ ParseFloat(TrimSuffix(parts[i + 1], suffix)).ok
             THEN IF toHz THEN TimesMillion(ParseFloat(TrimSuffix(parts[i + 1], suffix)).val)
                  ELSE ParseFloat(TrimSuffix(parts[i + 1], suffix)).val
             ELSE value)

\* the body of the scanner loop of PowermetricsCollector.Collect of main.go
MainPmScanBody(line, cpuSent, gpuSent) ==
    LET parts == Fields(line)
        power == MainFirstLoop(parts, 1, "Power:", "")
        cpu   == IF /\ ~cpuSent /\ Contains(line, "CPU Power:") /\ Contains(line, "mW")
                    /\ power.ok
                 THEN <<MustNewConstMetric(MainDescs.cpuPower, GaugeValue, power.val, <<>>)>>
                 ELSE <<>>
        gpu   == IF /\ ~gpuSent /\ Contains(line, "GPU Power:") /\ Contains(line, "mW")
                    /\ power.ok
                 THEN <<MustNewConstMetric(MainDescs.gpuPower, GaugeValue, power.val, <<>>)>>
                 ELSE <<>>
        cpuCore        == MainCoreLoop(parts, 1, "")
        freqValue      == MainValueLoop(parts, 1, "frequency:", "", TRUE, Num(0))
        residencyValue == MainValueLoop(parts, 1, "residency:", "%", FALSE, Num(0))
        gpuResidency   == MainFirstLoop(parts, 1, "residency:", "%")
        frequency ==
            IF /\ Contains(line, "frequency:") /\ Contains(line, "MHz") /\ Contains(line, "CPU")
               /\ cpuCore # "" /\ freqValue.m > 0
            THEN <<MustNewConstMetric(MainDescs.cpuFrequency, GaugeValue, freqValue,
                                      <<"cpu" \o cpuCore>>)>>
            ELSE <<>>
        active ==
            IF /\ Contains(line, "active residency:") /\ Contains(line, "%")
               /\ Contains(line, "CPU") /\ cpuCore # "" /\ residencyValue.m >= 0
            THEN <<MustNewConstMetric(MainDescs.cpuActiveResidency, GaugeValue, residencyValue,
                                      <<"cpu" \o cpuCore>>)>>
            ELSE <<>>
        idle ==
            IF /\ Contains(line, "idle residency:") /\ Contains(line, "%")
               /\ Contains(line, "CPU") /\ cpuCore # "" /\ residencyValue.m >= 0
            THEN <<MustNewConstMetric(MainDescs.cpuIdleResidency, GaugeValue, residencyValue,
                                      <<"cpu" \o cpuCore>>)>>
            ELSE <<>>
        gpuActive ==
            IF /\ Contains(line, "GPU HW active residency:") /\ Contains(line, "%")
               /\ gpuResidency.ok
            THEN <<MustNewConstMetric(MainDescs.gpuActiveResidency, GaugeValue,
                                      gpuResidency.val, <<>>)>>
            ELSE <<>>
        gpuIdle ==
            IF /\ Contains(line, "GPU idle residency:") /\ Contains(line, "%")
               /\ gpuResidency.ok
            THEN <<MustNewConstMetric(MainDescs.gpuIdleResidency, GaugeValue,
                                      gpuResidency.val, <<>>)>>
            ELSE <<>>
    IN  [out |-> cpu \o gpu \o frequency \o active \o idle \o gpuActive \o gpuIdle,
         cpuSent |-> cpuSent \/ cpu # <<>>,
         gpuSent |-> gpuSent \/ gpu # <<>>]

\* one more line of the scanner loop, from the locals after the lines before
MainPmStep(s, r) ==
    IF s.panic THEN s
    ELSE IF \A i \in 1..Len(r.out) : ~NewConstMetricErr(r.out[i].name, r.out[i].labels)
    THEN [ch |-> s.ch \o r.out, cpuPowerSent |-> r.cpuSent, gpuPowerSent |-> r.gpuSent,
          panic |-> FALSE]
    ELSE [ch |-> s.ch \o SubSeq(r.out, 1, FirstErr(r.out) - 1),
          cpuPowerSent |-> r.cpuSent, gpuPowerSent |-> r.gpuSent, panic |-> TRUE]

\* for scanner.Scan() over the first n lines of the capture
RECURSIVE MainPmLoop(_, _)
MainPmLoop(cap, n) ==
    IF n = 0
    THEN [ch |-> <<>>, cpuPowerSent |-> FALSE, gpuPowerSent |-> FALSE, panic |-> FALSE]
    ELSE MainPmStep(MainPmLoop(cap, n - 1),
                    MainPmScanBody(cap[n], MainPmLoop(cap, n - 1).cpuPowerSent,
                                   MainPmLoop(cap, n - 1).gpuPowerSent))

\* PowermetricsCollector.Collect of main.go
MainPmCollect ==
    /\ pmPc \in {"done", "panic"}
    /\ \E s \in {IF pmFail THEN MainPmLoop(<<>>, 0) ELSE MainPmLoop(pmOut, Len(pmOut))} :
           mainPm' = [valid |-> TRUE, fail |-> pmFail, out |-> pmOut,
                      ch |-> s.ch, panic |-> s.panic]
    /\ UNCHANGED <<osPageSize, vmVars, pmVars, mmVars, prevVars, reqVars, callVars,
                   mainVm, gatherPc, result>>

\* the body of the scanner loop of VmStatCollector.Collect of main.go
MainVmParseLine(valueMap0, line) ==
    LET parts == SplitN2(line, ":")
    IN  IF Len(parts) = 2
        THEN IF ParseFloat(TrimRight(TrimSpace(parts[2]), ".")).ok
             THEN MapPut(valueMap0, TrimSpace(parts[1]),
                         ParseFloat(TrimRight(TrimSpace(parts[2]), ".")).val)
             ELSE valueMap0
        ELSE valueMap0

\* for scanner.Scan() over the first n lines of the capture
RECURSIVE MainVmLoop(_, _)
MainVmLoop(cap, n) ==
    IF n = 0 THEN EmptyMap ELSE MainVmParseLine(MainVmLoop(cap, n - 1), cap[n])

\* the lookups of VmStatCollector.Collect of main.go, in their order
MainVmRules ==
    << <<"Pages free", MainDescs.freePages, GaugeValue>>,
       <<"Pages active", MainDescs.activePages, GaugeValue>>,
       <<"Pages inactive", MainDescs.inactivePages, GaugeValue>>,
       <<"Pages speculative", MainDescs.speculativePages, GaugeValue>>,
       <<"Pages throttled", MainDescs.throttledPages, GaugeValue>>,
       <<"Pages wired down", MainDescs.wiredPages, GaugeValue>>,
       <<"Pages purgeable", MainDescs.purgeablePages, GaugeValue>>,
       <<"Copy-on-writes", MainDescs.copyOnWrite, CounterValue>>,
       <<"Pages zero filled", MainDescs.zeroFilled, CounterValue>>,
       <<"Pages reactivated", MainDescs.reactivated, CounterValue>>,
       <<"Pages purged", MainDescs.purged, CounterValue>>,
       <<"File-backed pages", MainDescs.fileBacked, GaugeValue>>,
       <<"Anonymous pages", MainDescs.anonymous, GaugeValue>>,
       <<"Pages stored in compressor", MainDescs.compressor, GaugeValue>>,
       <<"Pages decompressed", MainDescs.decompressed, CounterValue>>,
       <<"Pages compressed", MainDescs.compressed, CounterValue>>,
       <<"Pageins", MainDescs.pageIns, CounterValue>>,
       <<"Pageouts", MainDescs.pageOuts, CounterValue>>,
       <<"Swapins", MainDescs.swapIns, CounterValue>>,
       <<"Swapouts", MainDescs.swapOuts, CounterValue>>,
       <<"Page faults", MainDescs.faults, CounterValue>> >>

\* the metrics the first n lookups send
RECURSIVE MainVmLookups(_, _)
MainVmLookups(valueMap0, n) ==
    IF n = 0 THEN <<>>
    ELSE MainVmLookups(valueMap0, n - 1) \o
         (IF MainVmRules[n][1] \in DOMAIN valueMap0
          THEN <<MustNewConstMetric(MainVmRules[n][2], MainVmRules[n][3],
                                    valueMap0[MainVmRules[n][1]], <<>>)>>
          ELSE <<>>)

\* VmStatCollector.Collect of main.go
MainVmCollect ==
    /\ vmPc = "done"
    /\ mainVm' = [valid |-> TRUE, fail |-> vmFail, out |-> vmOut,
                  ch |-> <<MustNewConstMetric(MainDescs.pageSize, GaugeValue,
                                              Float(osPageSize), <<>>)>> \o
                         (IF vmFail THEN <<>>
                          ELSE MainVmLookups(MainVmLoop(vmOut, Len(vmOut)), Len(MainVmRules)))]
    /\ UNCHANGED <<osPageSize, vmVars, pmVars, mmVars, prevVars, reqVars, callVars,
                   mainPm, gatherPc, result>>

MainPmLines ==
    {"CPU Power: 7 mW", "GPU Power: 6 mW", "CPU Power: x mW",
     "CPU Power: 5 mW GPU Power: 6 mW", "CPU 3 frequency: 2400 MHz",
     "CPU 0 frequency: 0 MHz", "CPU frequency: 2400 MHz", "CPU # frequency: 2400 MHz",
     "CPU 1 active residency: x%", "CPU 2 active residency: -1%",
     "CPU 0 idle residency:   0.04%", "GPU HW active residency:   2.25%",
     "GPU idle residency:  97.75%", "GPU idle residency: x%"}

MainVmLines ==
    DeclVmLines \cup {"Pages free: x.", "Pages free:9..."}

NextMain ==
    \/ vmPc = "idle" /\ ~mainPm.valid /\ PmCall /\ PmFrame
    \/ PmRunFail /\ PmFrame
    \/ PmRunOk(Captures(MainPmLines, MaxMainLines)) /\ PmFrame
    \/ PmScanLine /\ PmFrame
    \/ PmReturn /\ PmFrame
    \/ MainPmCollect
    \/ pmPc = "idle" /\ ~mainVm.valid /\ VmCall /\ VmFrame
    \/ VmRunFail /\ VmFrame
    \/ VmRunOk(Captures(MainVmLines, MaxMainLines)) /\ VmFrame
    \/ VmScanLine /\ VmFrame
    \/ VmMap /\ VmFrame
    \/ MainVmCollect

SpecMain == Init /\ [][NextMain]_vars

----------------------------------------------------------------------------
(* PowermetricsCollector.Collect over captures that report temperatures *)

MaxTempLines == 2

PmTempLines ==
    {"CPU die temperature: 45.50 C", "GPU die temperature: 40 C",
     "CPU 0 temperature: 45 C", "CPU 3 frequency: 2400 MHz",
     "CPU 1 idle residency: 5%", "CPU Power: 7 mW"}

NextTemp ==
    \/ PmCall /\ PmFrame
    \/ PmRunFail /\ PmFrame
    \/ PmRunOk(Captures(PmTempLines, MaxTempLines)) /\ PmFrame
    \/ PmScanLine /\ PmFrame
    \/ PmReturn /\ PmFrame

SpecTemp == Init /\ [][NextTemp]_vars

----------------------------------------------------------------------------
(* PowermetricsCollector.Collect over captures whose tokens are arbitrary *)

PmTokenLines ==
    {"", "CPU Power: 7 mW", "CPU 3 frequency: 2400 MHz", "CPU frequency: 2400 MHz",
     "CPU # frequency: 2400 MHz", "CPU 1# idle residency: 5%"}

NextTokens ==
    \/ PmCall /\ PmFrame
    \/ PmRunFail /\ PmFrame
    \/ PmRunOk(Captures(PmTokenLines, MaxTokenLines)) /\ PmFrame
    \/ PmScanLine /\ PmFrame
    \/ PmReturn /\ PmFrame

SpecTokens == Init /\ [][NextTokens]_vars

----------------------------------------------------------------------------
(* Properties *)

\* the number of metrics of a sequence that carry a metric name
Count(seq, name) == Cardinality({i \in 1..Len(seq) : seq[i].name = name})

HasLine(cap, lines) == \E i \in 1..Len(cap) : cap[i] \in lines

\* the page size metric of the host
PageSizeSample ==
    [name |-> "vmstat_page_size_bytes", kind |-> "gauge",
     value |-> [m |-> osPageSize * 100, e |-> 0], labels |-> <<>>]

IsPmSample(x) == SubSeq(x.name, 1, 13) = "powermetrics_"
IsVmSample(x) == SubSeq(x.name, 1, 7) = "vmstat_"

\* what the vm_stat lines of a scrape stand for, read off the lines
ScrapeVmExpected(cap) ==
    (IF HasLine(cap, {"Pages free: 7."})
     THEN <<[name |-> "vmstat_pages_free_count", kind |-> "gauge",
             value |-> [m |-> 700, e |-> 0], labels |-> <<>>]>>
     ELSE <<>>)
    \o
    (IF HasLine(cap, {"Pageins: 0."})
     THEN <<[name |-> "vmstat_page_ins_total", kind |-> "counter",
             value |-> [m |-> 0, e |-> 0], labels |-> <<>>]>>
     ELSE <<>>)

\* what the powermetrics lines 1..n of a scrape stand for
RECURSIVE ScrapePmExpected(_, _)
ScrapePmExpected(cap, n) ==
    IF n = 0 THEN <<>>
    ELSE ScrapePmExpected(cap, n - 1) \o
         (IF cap[n] = "CPU Power: 7 mW" /\ \A j \in 1..(n - 1) : cap[j] # cap[n]
          THEN <<[name |-> "powermetrics_cpu_power_milliwatts", kind |-> "gauge",
                  value |-> [m |-> 700, e |-> 0], labels |-> <<>>]>>
          ELSE IF cap[n] = "CPU 3 frequency: 2400 MHz"
          THEN <<[name |-> "powermetrics_cpu_frequency_hertz", kind |-> "gauge",
                  value |-> [m |-> 240000, e |-> 6], labels |-> <<"cpu3">>]>>
          ELSE <<>>)

\* C1: source-failure isolation.  When powermetrics fails and vm_stat
\* succeeds, the scrape holds exactly the page size metric and the vm_stat
\* metrics and no powermetrics metric; when vm_stat fails, every powermetrics
\* metric of the capture is still in the scrape.
C1_SourceFailureIsolation ==
    gatherPc = "done" =>
        /\ (pmFail /\ ~vmFail) =>
               /\ SelectSeq(result, IsPmSample) = <<>>
               /\ result = <<PageSizeSample>> \o ScrapeVmExpected(vmOut)
        /\ (vmFail /\ ~pmFail) =>
               /\ SelectSeq(result, IsPmSample) = ScrapePmExpected(pmOut, Len(pmOut))
               /\ SelectSeq(result, IsVmSample) = <<PageSizeSample>>

C1_Witness ==
    /\ gatherPc = "done" /\ pmFail /\ ~vmFail
    /\ Len(vmOut) = 2
    /\ Len(result) = 3

\* C2: every call of VmStatCollector.Collect sends exactly one
\* vmstat_page_size_bytes metric, a gauge whose value is the page size of the
\* host, whether vm_stat succeeds, fails or prints nothing parsable.
C2_PageSizeAlwaysOnce ==
    vmPc # "idle" =>
        /\ Count(vmCh, "vmstat_page_size_bytes") = 1
        /\ \E i \in 1..Len(vmCh) : vmCh[i] = PageSizeSample

C2_Witness ==
    /\ vmPc = "done" /\ vmFail
    /\ vmCh = <<PageSizeSample>>

\* the value of a number text of the vm_stat captures, in hundredths
VmNumVal(n) ==
    CASE n = "7" -> 700 [] n = "0" -> 0 [] n = "3.5" -> 350 [] n = "12" -> 1200

\* the keys a line is a parsable line of
VmLineKeys(line) ==
    {t.k : t \in {u \in VmGoodTuples : VmWellFormed(u) = line}}
    \cup (IF line \in {"Pages free: 9", "Pages free:9..."} THEN {"Pages free"} ELSE {})

\* C3: missing-field tolerance.  After a successful vm_stat run, a mapped key
\* with no parsable line in the capture has no metric (so none with value
\* zero either), and every mapped key that has a parsable line has its metric.
C3_MissingKeyOmitted ==
    (vmPc = "done" /\ ~vmFail) =>
        \A r \in 1..Len(VmRules) :
            Count(vmCh, VmRules[r].desc) =
                IF \E i \in 1..Len(vmOut) : VmRules[r].key \in VmLineKeys(vmOut[i])
                THEN 1 ELSE 0

C3_Witness ==
    /\ vmPc = "done" /\ ~vmFail
    /\ Len(vmOut) = 2
    /\ vmOut[1] = "Pages free: 7."
    /\ vmOut[2] = "Pageins: 0."
    /\ Count(vmCh, "vmstat_pages_purgeable_count") = 0
    /\ Count(vmCh, "vmstat_pages_free_count") = 1
    /\ Count(vmCh, "vmstat_page_ins_total") = 1

\* C4: a well-formed line "<key>: <number>." maps exactly the trimmed key to
\* the number before the trailing period, and changes no other entry of the
\* snapshot.
C4_WellFormedLine ==
    [][\A t \in VmGoodTuples :
          (vmPc = "scan" /\ vmLine <= Len(vmOut) /\ vmOut[vmLine] = VmWellFormed(t)) =>
              /\ DOMAIN valueMap' = DOMAIN valueMap \cup {t.k}
              /\ valueMap'[t.k] = [m |-> VmNumVal(t.n), e |-> 0]
              /\ \A x \in DOMAIN valueMap \ {t.k} : valueMap'[x] = valueMap[x]]_vars

C4_Witness ==
    /\ vmPc = "scan" /\ vmLine = 3
    /\ vmOut[1] = "Pageins: 3.5."
    /\ vmOut[2] = "  Pages free:\t 12."
    /\ DOMAIN valueMap = {"Pageins", "Pages free"}
    /\ valueMap["Pages free"] = [m |-> 1200, e |-> 0]
    /\ valueMap["Pageins"] = [m |-> 350, e |-> 0]

Colons(line) == Cardinality({i \in 1..Len(line) : Char(line, i) = ":"})

\* the lines the parser has to skip: no ':', several ':', or a value that is
\* no number
VmSkipLine(line) ==
    \/ Colons(line) = 0
    \/ Colons(line) >= 2
    \/ line \in {"Pages free: " \o b \o "." : b \in VmBadTexts}

\* C5: a line with no ':', with more than one ':' or with a value that is no
\* number leaves the snapshot as it is, raises no error and lets the scanner
\* go on to the next line.
C5_SkipRule ==
    [][(vmPc = "scan" /\ vmLine <= Len(vmOut) /\ VmSkipLine(vmOut[vmLine])) =>
           /\ valueMap' = valueMap
           /\ vmLine' = vmLine + 1
           /\ vmPc' = "scan"
           /\ vmFail' = vmFail
           /\ vmCh' = vmCh]_vars

C5_Witness ==
    /\ vmPc = "done" /\ ~vmFail
    /\ Len(vmOut) = 2
    /\ vmOut[1] = "a: Pageins: 5."
    /\ vmOut[2] = "Pageins: 7."
    /\ DOMAIN valueMap = {"Pageins"}
    /\ valueMap["Pageins"] = [m |-> 700, e |-> 0]
    /\ Count(vmCh, "vmstat_page_ins_total") = 1

\* the lines that carry a CPU (GPU) power reading the scanner can read: the
\* marker, the unit, and a number after the first token "Power:"
CpuPowerValueLines ==
    {"CPU Power: 1339 mW", "CPU Power: 7 mW", "CPU Power: 5 mW GPU Power: 6 mW"}

GpuPowerValueLines == {"GPU Power: 6 mW", "CPU Power: 5 mW GPU Power: 6 mW"}

\* the reading of such a line, in hundredths of a milliwatt
PowerValue(line) ==
    CASE line = "CPU Power: 1339 mW" -> 133900
      [] line = "CPU Power: 7 mW" -> 700
      [] line = "GPU Power: 6 mW" -> 600
      [] line = "CPU Power: 5 mW GPU Power: 6 mW" -> 500

\* C6: power deduplication.  A collection sends at most one CPU power metric
\* and at most one GPU power metric, and each of the two is sent whenever the
\* capture has a readable line for it, whatever the lines of the other.
C6_PowerDedup ==
    /\ Count(pmCh, "powermetrics_cpu_power_milliwatts") <= 1
    /\ Count(pmCh, "powermetrics_gpu_power_milliwatts") <= 1
    /\ (pmPc = "done" /\ ~pmFail) =>
           /\ Count(pmCh, "powermetrics_cpu_power_milliwatts") = 1
                  <=> HasLine(pmOut, CpuPowerValueLines)
           /\ Count(pmCh, "powermetrics_gpu_power_milliwatts") = 1
                  <=> HasLine(pmOut, GpuPowerValueLines)

C6_Witness ==
    /\ pmPc = "done" /\ ~pmFail
    /\ Len(pmOut) = 2
    /\ pmOut[1] = "CPU Power: 5 mW GPU Power: 6 mW"
    /\ pmOut[2] = "GPU Power: 6 mW"
    /\ Count(pmCh, "powermetrics_cpu_power_milliwatts") = 1
    /\ Count(pmCh, "powermetrics_gpu_power_milliwatts") = 1

\* the CPU power metrics of a sequence
CpuPowerSamples(seq) ==
    SelectSeq(seq, LAMBDA x : x.name = "powermetrics_cpu_power_milliwatts")

\* the lines that match the CPU power marker
CpuPowerMatches(cap) ==
    {i \in 1..Len(cap) : Contains(cap[i], "CPU Power:") /\ Contains(cap[i], "mW")}

\* C7 as stated: with two lines that match the CPU power marker, exactly one
\* CPU power metric is sent and its value is read from the first of them,
\* whatever token follows the marker.
C7_FirstMatchWins_Stated ==
    (pmPc = "done" /\ ~pmFail /\ Cardinality(CpuPowerMatches(pmOut)) >= 2) =>
        LET first == pmOut[MinOf(CpuPowerMatches(pmOut))]
        IN  /\ first \in CpuPowerValueLines
            /\ CpuPowerSamples(pmCh) =
                   <<[name |-> "powermetrics_cpu_power_milliwatts", kind |-> "gauge",
                      value |-> [m |-> PowerValue(first), e |-> 0], labels |-> <<>>]>>

\* C7 as amended: the CPU power metric is read from the first matching line
\* whose token after "Power:" is a number; it is the first matching line when
\* that line carries a number, and no metric is sent when no line does.
C7_FirstReadableMatchWins ==
    (pmPc = "done" /\ ~pmFail) =>
        LET P == {i \in 1..Len(pmOut) : pmOut[i] \in CpuPowerValueLines}
        IN  CpuPowerSamples(pmCh) =
                IF P = {} THEN <<>>
                ELSE <<[name |-> "powermetrics_cpu_power_milliwatts", kind |-> "gauge",
                        value |-> [m |-> PowerValue(pmOut[MinOf(P)]), e |-> 0],
                        labels |-> <<>>]>>

C7_Witness ==
    /\ pmPc = "done" /\ ~pmFail
    /\ Len(pmOut) = 2
    /\ pmOut[1] = "CPU Power: 1339 mW"
    /\ pmOut[2] = "CPU Power: 7 mW"
    /\ Len(pmCh) = 1
    /\ pmCh[1].value = [m |-> 133900, e |-> 0]

\* the frequency a frequency text stands for, in MHz
FreqMHz(f) == CASE f = "2400" -> 2400 [] f = "0" -> 0

FreqLine(n, f) == "CPU " \o n \o " frequency: " \o f \o " MHz"

\* the metric of f MHz on core n: f * 1,000,000 Hz
FreqSample(n, f) ==
    [name |-> "powermetrics_cpu_frequency_hertz", kind |-> "gauge",
     value |-> [m |-> FreqMHz(f) * 100, e |-> 6], labels |-> <<"cpu" \o n>>]

\* the scanner is about to read this line
PmAtLine(line) == pmPc = "scan" /\ pmLine <= Len(pmOut) /\ pmOut[pmLine] = line

\* C8 as stated: a line "CPU <n> frequency: <f> MHz" sends exactly one
\* frequency metric, of value f * 1,000,000 and labelled with core n.
C8_FrequencyConversion_Stated ==
    [][\A n \in PmCoreTexts, f \in PmFreqTexts :
          PmAtLine(FreqLine(n, f)) => pmCh' = pmCh \o <<FreqSample(n, f)>>]_vars

\* C8 as amended: the line sends exactly that metric when f is greater than
\* zero, and no metric when f is zero.
C8_FrequencyConversion ==
    [][\A n \in PmCoreTexts, f \in PmFreqTexts :
          PmAtLine(FreqLine(n, f)) =>
              pmCh' = pmCh \o (IF FreqMHz(f) > 0 THEN <<FreqSample(n, f)>> ELSE <<>>)]_vars

C8_Witness ==
    /\ pmPc = "scan" /\ pmLine = 2
    /\ pmOut[1] = "CPU 3 frequency: 2400 MHz"
    /\ pmCh = <<[name |-> "powermetrics_cpu_frequency_hertz", kind |-> "gauge",
                 value |-> [m |-> 240000, e |-> 6], labels |-> <<"cpu3">>]>>

\* a line carries a recognized marker together with its unit
Recognized(line) ==
    \/ (Contains(line, "CPU Power:") \/ Contains(line, "GPU Power:")) /\ Contains(line, "mW")
    \/ Contains(line, "frequency:") /\ Contains(line, "MHz") /\ Contains(line, "CPU")
    \/ /\ Contains(line, "active residency:") \/ Contains(line, "idle residency:")
       /\ Contains(line, "%")
       /\ Contains(line, "CPU")
    \/ /\ Contains(line, "GPU HW active residency:") \/ Contains(line, "GPU idle residency:")
       /\ Contains(line, "%")

\* C9: a line without a recognized marker and its unit sends no metric.
C9_NoFalsePositive ==
    [][(pmPc = "scan" /\ pmLine <= Len(pmOut) /\ ~Recognized(pmOut[pmLine])) =>
           pmCh' = pmCh]_vars

C9_Witness ==
    /\ pmPc = "done" /\ ~pmFail
    /\ Len(pmOut) = 2
    /\ pmOut[1] = "CPU 2 frequency: 2064"
    /\ pmOut[2] = "CPU Power: 7 W"
    /\ pmCh = <<>>

\* the lines that match a marker and whose value token is missing or is no
\* number
PmNoValueLines ==
    {"CPU Power: x mW", "CPU Power: mW", "GPU Power: x mW", "CPU 1 frequency: x MHz",
     "CPU 1 active residency: x%", "CPU 1 idle residency: %", "GPU idle residency: x%"}

\* C10: a line that matches a marker but whose value token is missing or is no
\* number sends no metric, in particular none of value zero.
C10_UnparsableDropped ==
    [][(pmPc = "scan" /\ pmLine <= Len(pmOut) /\ pmOut[pmLine] \in PmNoValueLines) =>
           pmCh' = pmCh]_vars

\* the metrics MacMonCollector.Collect maps from a scalar member of the
\* record, with the path of the member
MmScalarFields ==
    {[path |-> <<"all_power">>, name |-> "macmon_all_power_watts"],
     [path |-> <<"ane_power">>, name |-> "macmon_ane_power_watts"],
     [path |-> <<"cpu_power">>, name |-> "macmon_cpu_power_watts"],
     [path |-> <<"gpu_power">>, name |-> "macmon_gpu_power_watts"],
     [path |-> <<"gpu_ram_power">>, name |-> "macmon_gpu_ram_power_watts"],
     [path |-> <<"ram_power">>, name |-> "macmon_ram_power_watts"],
     [path |-> <<"sys_power">>, name |-> "macmon_sys_power_watts"],
     [path |-> <<"temp", "cpu_temp_avg">>, name |-> "macmon_cpu_temperature_celsius"],
     [path |-> <<"temp", "gpu_temp_avg">>, name |-> "macmon_gpu_temperature_celsius"],
     [path |-> <<"memory", "ram_total">>, name |-> "macmon_memory_ram_total_bytes"],
     [path |-> <<"memory", "ram_usage">>, name |-> "macmon_memory_ram_used_bytes"],
     [path |-> <<"memory", "swap_total">>, name |-> "macmon_memory_swap_total_bytes"],
     [path |-> <<"memory", "swap_usage">>, name |-> "macmon_memory_swap_used_bytes"]}

\* the metrics of the three usage arrays: frequency from position 0, usage
\* from position 1
MmUsageFields ==
    {[key |-> "ecpu_usage", freq |-> "macmon_ecpu_frequency_megahertz",
      usage |-> "macmon_ecpu_usage_percent"],
     [key |-> "pcpu_usage", freq |-> "macmon_pcpu_frequency_megahertz",
      usage |-> "macmon_pcpu_usage_percent"],
     [key |-> "gpu_usage", freq |-> "macmon_gpu_frequency_megahertz",
      usage |-> "macmon_gpu_usage_percent"]}

\* the metrics of a sequence whose name is one of names, in their order
Named(seq, names) ==
    LET Test(x) == x.name \in names
    IN  SelectSeq(seq, Test)

\* the metrics a step sent on the channel of MacMonCollector.Collect
MmNew == SubSeq(mmCh', Len(mmCh) + 1, Len(mmCh'))

\* the scanner loop of MacMonCollector.Collect takes a line json.Unmarshal
\* decodes
MmAtGoodLine ==
    /\ mmPc = "scan"
    /\ mmLine <= Len(mmOut)
    /\ mmOut[mmLine] \in MmGoodLines
    /\ mmLine' = mmLine + 1

\* the decodable lines among the lines the scanner loop has passed
MmDecodedSoFar == {i \in 1..Len(mmOut) : i < mmLine /\ mmOut[i] \in MmGoodLines}

\* C11: a line of a macmon capture that fails to decode sends no metric and
\* every decodable line before and after it sends its metrics: at every
\* point of the scanner loop, and when Collect has returned, each metric
\* mapped from a scalar member has been sent once per decodable line passed,
\* and nothing has been sent when no line passed is decodable.
C11_DecodeFailureIsolation ==
    /\ \A f \in MmScalarFields : Count(mmCh, f.name) = Cardinality(MmDecodedSoFar)
    /\ MmDecodedSoFar = {} => mmCh = <<>>

\* a line that fails to decode before a decodable line
C11_Witness ==
    /\ mmPc = "done"
    /\ Len(mmOut) = 2
    /\ mmOut[1] \in MmBadLines
    /\ mmOut[2] \in MmGoodLines
    /\ Count(mmCh, "macmon_all_power_watts") = 1

\* the elements of a usage array as the line carries them
MmRawArray(line, key) ==
    IF line.v.t = "obj" /\ key \in DOMAIN line.v.o THEN line.v.o[key].a ELSE <<>>

\* the two metrics of a usage array that has both positions
MmUsageExpected(f, arr) ==
    IF Len(arr) >= 2
    THEN <<[name |-> f.freq, kind |-> "gauge", value |-> [m |-> arr[1].n, e |-> 0],
            labels |-> <<>>],
           [name |-> f.usage, kind |-> "gauge", value |-> [m |-> arr[2].n, e |-> 0],
            labels |-> <<>>]>>
    ELSE <<>>

\* C12: for a decodable line and each of ecpu_usage, pcpu_usage and
\* gpu_usage, the frequency and the usage metric are sent, from positions 0
\* and 1, exactly when the array has at least two elements; with fewer both
\* are omitted, and the other arrays and the scalar members are sent as ever.
C12_UsageArrays ==
    [][MmAtGoodLine =>
           /\ \A f \in MmUsageFields :
                  Named(MmNew, {f.freq, f.usage})
                      = MmUsageExpected(f, MmRawArray(mmOut[mmLine], f.key))
           /\ \A f \in MmScalarFields : Count(MmNew, f.name) = 1]_vars

\* a record whose ecpu_usage has one element and whose pcpu_usage has two
C12_Witness ==
    /\ mmPc = "done"
    /\ Len(mmOut) = 1
    /\ mmOut[1] \in MmGoodLines
    /\ Len(MmRawArray(mmOut[1], "ecpu_usage")) = 1
    /\ Len(MmRawArray(mmOut[1], "pcpu_usage")) = 2
    /\ Count(mmCh, "macmon_ecpu_frequency_megahertz") = 0
    /\ Count(mmCh, "macmon_ecpu_usage_percent") = 0
    /\ Count(mmCh, "macmon_pcpu_frequency_megahertz") = 1
    /\ Count(mmCh, "macmon_all_power_watts") = 1

\* the line carries the member at the path
MmHasPath(line, path) ==
    /\ line.v.t = "obj"
    /\ path[1] \in DOMAIN line.v.o
    /\ Len(path) = 2 =>
           /\ line.v.o[path[1]].t = "obj"
           /\ path[2] \in DOMAIN line.v.o[path[1]].o

\* C13: a decodable macmon line that does not carry a scalar member sends no
\* metric for it.
C13_NoZeroFill ==
    [][MmAtGoodLine =>
           \A f \in MmScalarFields :
               ~MmHasPath(mmOut[mmLine], f.path) => Count(MmNew, f.name) = 0]_vars

\* C14: for each collector, a call of Collect that got the same capture as
\* the call before it, with the same outcome of the command, sent the same
\* metrics in the same order: what a call sends is a function of its capture.
C14_Determinism ==
    /\ (vmPc = "done" /\ vmPrev.valid /\ vmPrev.fail = vmFail /\ vmPrev.out = vmOut) =>
           vmCh = vmPrev.ch
    /\ (pmPc = "done" /\ pmPrev.valid /\ pmPrev.fail = pmFail /\ pmPrev.out = pmOut) =>
           pmCh = pmPrev.ch
    /\ (mmPc = "done" /\ mmPrev.valid /\ mmPrev.fail = mmFail /\ mmPrev.out = mmOut) =>
           mmCh = mmPrev.ch

\* powermetrics printed the same two lines, a power line among them, twice
C14_Witness ==
    /\ pmPc = "done" /\ pmPrev.valid /\ ~pmFail /\ ~pmPrev.fail
    /\ pmPrev.out = pmOut
    /\ Len(pmOut) = 2
    /\ HasLine(pmOut, {"CPU Power: 7 mW"})
    /\ Count(pmCh, "powermetrics_cpu_power_milliwatts") = 1
    /\ Count(pmPrev.ch, "powermetrics_cpu_power_milliwatts") = 1

\* the lines of the captures of repeated calls that carry a metric
CycleLinesFor ==
    [vmstat_pages_free_count |-> {"Pages free: 7."},
     vmstat_page_ins_total |-> {"Pageins: 0."},
     powermetrics_cpu_power_milliwatts |-> {"CPU Power: 7 mW"},
     powermetrics_cpu_frequency_hertz |-> {"CPU 3 frequency: 2400 MHz"}]

\* C20: after any sequence of calls, what a call of Collect sends is what its
\* own capture stands for.  A metric the previous call sent and whose line is
\* absent from the capture of this call is not sent by this call, and a CPU
\* power metric sent by the previous call does not keep this call from
\* sending the CPU power of its own capture.
C20_StatelessAcrossCycles ==
    /\ (vmPc = "done" /\ ~vmFail) => vmCh = <<PageSizeSample>> \o ScrapeVmExpected(vmOut)
    /\ (vmPc = "done" /\ vmFail) => vmCh = <<PageSizeSample>>
    /\ (pmPc = "done" /\ ~pmFail) => pmCh = ScrapePmExpected(pmOut, Len(pmOut))
    /\ (pmPc = "done" /\ pmFail) => pmCh = <<>>
    /\ \A n \in {"vmstat_pages_free_count", "vmstat_page_ins_total"} :
           (vmPc = "done" /\ vmPrev.valid /\ Count(vmPrev.ch, n) > 0
                /\ ~HasLine(vmOut, CycleLinesFor[n])) =>
               Count(vmCh, n) = 0
    /\ \A n \in {"powermetrics_cpu_power_milliwatts", "powermetrics_cpu_frequency_hertz"} :
           (pmPc = "done" /\ pmPrev.valid /\ Count(pmPrev.ch, n) > 0
                /\ ~HasLine(pmOut, CycleLinesFor[n])) =>
               Count(pmCh, n) = 0
    /\ (pmPc = "done" /\ pmPrev.valid
            /\ Count(pmPrev.ch, "powermetrics_cpu_power_milliwatts") = 1
            /\ HasLine(pmOut, CycleLinesFor["powermetrics_cpu_power_milliwatts"])) =>
           Count(pmCh, "powermetrics_cpu_power_milliwatts") = 1

\* the previous call sent the free pages, vm_stat then printed lines without
\* them and this call sent none
C20_Witness ==
    /\ vmPc = "done" /\ vmPrev.valid /\ ~vmFail
    /\ Count(vmPrev.ch, "vmstat_pages_free_count") = 1
    /\ Len(vmOut) = 2
    /\ ~HasLine(vmOut, {"Pages free: 7."})
    /\ Count(vmCh, "vmstat_pages_free_count") = 0
    /\ Count(vmCh, "vmstat_page_ins_total") = 1

\* the position of a metric name in a sequence of names
Pos(order, name) == CHOOSE i \in 1..Len(order) : order[i] = name

\* the metrics of seq follow the order of the names, several of one name
\* side by side
InOrder(seq, order) ==
    \A i, j \in 1..Len(seq) :
        i < j => Pos(order, seq[i].name) <= Pos(order, seq[j].name)

\* the metrics of seq follow the order of the names, one of a name at most
InStrictOrder(seq, order) ==
    \A i, j \in 1..Len(seq) :
        i < j => Pos(order, seq[i].name) < Pos(order, seq[j].name)

VmSendOrder ==
    <<"vmstat_page_size_bytes",
      "vmstat_pages_free_count", "vmstat_pages_active_count",
      "vmstat_pages_inactive_count", "vmstat_pages_speculative_count",
      "vmstat_pages_throttled_count", "vmstat_pages_wired_count",
      "vmstat_pages_purgeable_count", "vmstat_pages_cow_faults_total",
      "vmstat_pages_zero_filled_total", "vmstat_pages_reactivated_total",
      "vmstat_pages_purged_total", "vmstat_pages_file_backed_count",
      "vmstat_pages_anonymous_count", "vmstat_pages_compressor_count",
      "vmstat_pages_decompressed_total", "vmstat_pages_compressed_total",
      "vmstat_page_ins_total", "vmstat_page_outs_total",
      "vmstat_swap_ins_total", "vmstat_swap_outs_total",
      "vmstat_faults_total">>

\* the name of the metric a powermetrics line of the scrape sends
OrderPmName ==
    [l \in OrderPmLines |->
        IF l = "CPU Power: 7 mW" THEN "powermetrics_cpu_power_milliwatts"
        ELSE "powermetrics_cpu_frequency_hertz"]

\* the names of the metrics of powermetrics lines 1..n, line by line, the
\* power once
RECURSIVE OrderPmNames(_, _)
OrderPmNames(cap, n) ==
    IF n = 0 THEN <<>>
    ELSE OrderPmNames(cap, n - 1) \o
         (IF cap[n] = "CPU Power: 7 mW" /\ \E j \in 1..(n - 1) : cap[j] = cap[n]
          THEN <<>>
          ELSE <<OrderPmName[cap[n]]>>)

C16_BoundedCapture == (gatherPc = "collecting") ~> (gatherPc = "done")

\* C17: when requests overlap, at no time do two powermetrics processes, or
\* two vm_stat processes, run at once for the exporter.
C17_SerializedCollection ==
    /\ Cardinality({r \in Requests : procPm[r] = "running"}) <= 1
    /\ Cardinality({r \in Requests : procVm[r] = "running"}) <= 1

\* the documented metric of every vm_stat key, with the line that carries the
\* key and the value of that line in hundredths
VmDocumented ==
    {[line |-> "Pages free: 1.", name |-> "vmstat_pages_free_count",
      kind |-> "gauge", m |-> 100],
     [line |-> "Pages active: 2.", name |-> "vmstat_pages_active_count",
      kind |-> "gauge", m |-> 200],
     [line |-> "Pages inactive: 3.", name |-> "vmstat_pages_inactive_count",
      kind |-> "gauge", m |-> 300],
     [line |-> "Pages speculative: 4.", name |-> "vmstat_pages_speculative_count",
      kind |-> "gauge", m |-> 400],
     [line |-> "Pages throttled: 5.", name |-> "vmstat_pages_throttled_count",
      kind |-> "gauge", m |-> 500],
     [line |-> "Pages wired down: 6.", name |-> "vmstat_pages_wired_count",
      kind |-> "gauge", m |-> 600],
     [line |-> "Pages purgeable: 7.", name |-> "vmstat_pages_purgeable_count",
      kind |-> "gauge", m |-> 700],
     [line |-> "File-backed pages: 8.", name |-> "vmstat_pages_file_backed_count",
      kind |-> "gauge", m |-> 800],
     [line |-> "Anonymous pages: 9.", name |-> "vmstat_pages_anonymous_count",
      kind |-> "gauge", m |-> 900],
     [line |-> "Pages stored in compressor: 10.", name |-> "vmstat_pages_compressor_count",
      kind |-> "gauge", m |-> 1000],
     [line |-> "Copy-on-writes: 11.", name |-> "vmstat_pages_cow_faults_total",
      kind |-> "counter", m |-> 1100],
     [line |-> "Pages zero filled: 12.", name |-> "vmstat_pages_zero_filled_total",
      kind |-> "counter", m |-> 1200],
     [line |-> "Pages reactivated: 13.", name |-> "vmstat_pages_reactivated_total",
      kind |-> "counter", m |-> 1300],
     [line |-> "Pages purged: 14.", name |-> "vmstat_pages_purged_total",
      kind |-> "counter", m |-> 1400],
     [line |-> "Pages decompressed: 15.", name |-> "vmstat_pages_decompressed_total",
      kind |-> "counter", m |-> 1500],
     [line |-> "Pages compressed: 16.", name |-> "vmstat_pages_compressed_total",
      kind |-> "counter", m |-> 1600],
     [line |-> "Pageins: 17.", name |-> "vmstat_page_ins_total",
      kind |-> "counter", m |-> 1700],
     [line |-> "Pageouts: 18.", name |-> "vmstat_page_outs_total",
      kind |-> "counter", m |-> 1800],
     [line |-> "Page faults: 19.", name |-> "vmstat_faults_total",
      kind |-> "counter", m |-> 1900],
     [line |-> "Swapins: 20.", name |-> "vmstat_swap_ins_total",
      kind |-> "counter", m |-> 2000],
     [line |-> "Swapouts: 21.", name |-> "vmstat_swap_outs_total",
      kind |-> "counter", m |-> 2100]}

\* C18: every vm_stat key yields the documented metric of the documented
\* kind, a gauge for the ten page counts and a counter for the eleven totals,
\* with the value of its line and no label; nothing else is sent but the page
\* size metric.
C18_VmMetricIdentity ==
    (vmPc = "done" /\ ~vmFail) =>
        /\ \A d \in VmDocumented :
               IF HasLine(vmOut, {d.line})
               THEN /\ Count(vmCh, d.name) = 1
                    /\ \E i \in 1..Len(vmCh) :
                           vmCh[i] = [name |-> d.name, kind |-> d.kind,
                                      value |-> [m |-> d.m, e |-> 0], labels |-> <<>>]
               ELSE Count(vmCh, d.name) = 0
        /\ Len(vmCh) = 1 + Cardinality({d \in VmDocumented : HasLine(vmOut, {d.line})})

\* vm_stat printed a counter and a gauge
C18_Witness ==
    /\ vmPc = "done" /\ ~vmFail
    /\ vmOut = <<"Page faults: 19.", "Pages wired down: 6.">>
    /\ Len(vmCh) = 3
    /\ vmCh[2] = [name |-> "vmstat_pages_wired_count", kind |-> "gauge",
                  value |-> [m |-> 600, e |-> 0], labels |-> <<>>]
    /\ vmCh[3] = [name |-> "vmstat_faults_total", kind |-> "counter",
                  value |-> [m |-> 1900, e |-> 0], labels |-> <<>>]

\* the number of label names of every descriptor that has any
LabelNames ==
    [powermetrics_cpu_frequency_hertz |-> 1,
     powermetrics_cpu_temperature_celsius |-> 1,
     powermetrics_cpu_active_residency_percent |-> 1,
     powermetrics_cpu_idle_residency_percent |-> 1]

\* the metric has as many label values as its descriptor has label names
LabelsMatch(x) ==
    Len(x.labels) = IF x.name \in DOMAIN LabelNames THEN LabelNames[x.name] ELSE 0

\* C19: whatever the capture holds, Collect does not panic and returns, and
\* every metric sent has as many label values as its descriptor has label
\* names.
C19_NoFatalError ==
    /\ pmPc # "panic"
    /\ \A i \in 1..Len(pmCh) : LabelsMatch(pmCh[i])
    /\ \A i \in 1..Len(vmCh) : LabelsMatch(vmCh[i])
    /\ \A i \in 1..Len(mmCh) : LabelsMatch(mmCh[i])

\* the parsable lines of the vm_stat captures whose key is "Pages free"
FreeLines ==
    {"Pages free: 7.", "Pages free: 0.", "Pages free: 3.5.", "  Pages free:\t 12.",
     "Pages free: 9", "Pages free:9..."}

\* the value such a line carries, in hundredths
FreeValue(line) ==
    CASE line = "Pages free: 7." -> 700
      [] line = "Pages free: 0." -> 0
      [] line = "Pages free: 3.5." -> 350
      [] line = "  Pages free:\t 12." -> 1200
      [] line = "Pages free: 9" -> 900
      [] line = "Pages free:9..." -> 900

\* C21: when several parsable lines of a vm_stat capture carry the key
\* "Pages free", exactly one vmstat_pages_free_count metric is sent and its
\* value is that of the last of them; a later line with the key and no
\* readable number does not erase it.
C21_LastDuplicateWins ==
    (vmPc = "done" /\ ~vmFail) =>
        LET idx == {i \in 1..Len(vmOut) : vmOut[i] \in FreeLines}
        IN  IF idx = {}
            THEN Count(vmCh, "vmstat_pages_free_count") = 0
            ELSE /\ Count(vmCh, "vmstat_pages_free_count") = 1
                 /\ \E i \in 1..Len(vmCh) :
                        vmCh[i] = [name |-> "vmstat_pages_free_count", kind |-> "gauge",
                                   value |-> [m |-> FreeValue(vmOut[MaxOf(idx)]), e |-> 0],
                                   labels |-> <<>>]

\* two parsable lines of the key with different values
C21_Witness ==
    /\ vmPc = "done" /\ ~vmFail
    /\ vmOut = <<"Pages free: 7.", "Pages free: 3.5.">>
    /\ vmCh = <<PageSizeSample,
                [name |-> "vmstat_pages_free_count", kind |-> "gauge",
                 value |-> [m |-> 350, e |-> 0], labels |-> <<>>]>>

\* C22: within one scrape the command of each source is started only as the
\* scrape starts; a source goes from capture to parse to return, its capture
\* is set only as the capture phase ends and vm_stat sends its mapped samples
\* only as it returns; after a failed capture the source has returned, has
\* sent nothing from parsed text, and is not captured again in the scrape.
C22_NoRetry ==
    [][ /\ (pmPc' = "run" /\ pmPc # "run") => (gatherPc # "collecting" /\ gatherPc' = "collecting")
        /\ (vmPc' = "run" /\ vmPc # "run") => (gatherPc # "collecting" /\ gatherPc' = "collecting")
        /\ pmPc = "run" => pmPc' \in {"run", "scan", "done"}
        /\ pmPc = "scan" => pmPc' \in {"scan", "done", "panic"}
        /\ pmPc = "done" => (pmPc' = "done" \/ gatherPc' # gatherPc)
        /\ vmPc = "run" => vmPc' \in {"run", "scan", "done"}
        /\ vmPc = "scan" => vmPc' \in {"scan", "done"}
        /\ vmPc = "done" => (vmPc' = "done" \/ gatherPc' # gatherPc)
        /\ pmOut' # pmOut => (pmPc = "run" \/ pmPc' = "run")
        /\ vmOut' # vmOut => (vmPc = "run" \/ vmPc' = "run")
        /\ pmCh' # pmCh => (pmPc = "scan" \/ pmPc' = "run")
        /\ vmCh' # vmCh => ((vmPc = "scan" /\ vmPc' = "done") \/ vmPc' = "run")
        /\ pmFail' => (pmPc' = "done" /\ pmOut' = <<>> /\ pmCh' = <<>>)
        /\ vmFail' => (vmPc' = "done" /\ vmOut' = <<>> /\ vmCh' = <<PageSizeSample>>)
      ]_vars

\* a scrape is answered in which powermetrics failed and vm_stat went through
\* its phases
C22_Witness ==
    /\ gatherPc = "done"
    /\ pmFail /\ pmCh = <<>>
    /\ ~vmFail /\ vmOut = <<"Pages free: 7.", "Pageins: 0.">> /\ Len(vmCh) = 3
    /\ result = vmCh

\* the metrics that carry a core label
PerCoreNames ==
    {"powermetrics_cpu_frequency_hertz", "powermetrics_cpu_active_residency_percent",
     "powermetrics_cpu_idle_residency_percent"}

\* "cpu" followed by an integer
IsCoreLabel(l) ==
    /\ Len(l) > 3
    /\ SubSeq(l, 1, 3) = "cpu"
    /\ AllDigits(SubSeq(l, 4, Len(l)))

\* C23: every per-core metric sent carries a core label made of "cpu" and an
\* integer; a line on which no integer follows the token "CPU" sends no
\* per-core metric.
C23_CoreLabelIsInteger ==
    \A i \in 1..Len(pmCh) :
        pmCh[i].name \in PerCoreNames =>
            /\ Len(pmCh[i].labels) = 1
            /\ IsCoreLabel(pmCh[i].labels[1])

C25_IndependentCalls ==
    \A c \in Calls :
        /\ pmCalls[c].pc # "panic"
        /\ pmCalls[c].pc \in {"scan", "done"} =>
               pmCalls[c].ch = IF pmCalls[c].fail THEN <<>>
                               ELSE ScrapePmExpected(pmCalls[c].out, pmCalls[c].line - 1)
        /\ pmCalls[c].pc = "done" /\ ~pmCalls[c].fail => pmCalls[c].line = Len(pmCalls[c].out) + 1
        /\ vmCalls[c].pc \in {"run", "scan"} => vmCalls[c].ch = <<PageSizeSample>>
        /\ vmCalls[c].pc = "done" =>
               vmCalls[c].ch = IF vmCalls[c].fail THEN <<PageSizeSample>>
                               ELSE <<PageSizeSample>> \o ScrapeVmExpected(vmCalls[c].out)

\* one call has returned while the other is between two lines, and both have
\* sent the CPU power of their capture
C25_Witness ==
    /\ pmCalls["a"].pc = "done"
    /\ pmCalls["a"].out = <<"CPU Power: 7 mW", "CPU Power: 7 mW">>
    /\ Len(pmCalls["a"].ch) = 1
    /\ pmCalls["b"].pc = "scan"
    /\ pmCalls["b"].out = <<"CPU Power: 7 mW", "CPU 3 frequency: 2400 MHz">>
    /\ pmCalls["b"].line = 2
    /\ Len(pmCalls["b"].ch) = 1

\* no two metrics of the sequence have the same name and the same label values
Unique(seq) ==
    \A i, j \in 1..Len(seq) :
        (seq[i].name = seq[j].name /\ seq[i].labels = seq[j].labels) => i = j

\* C26: whatever the capture holds, a call of Collect sends no two metrics
\* with the same name and the same label values.
C26_SampleUniqueness ==
    /\ Unique(pmCh)
    /\ Unique(vmCh)
    /\ Unique(mmCh)

\* the descriptors of a sequence, as a set
Declared(describe) == {describe[i] : i \in 1..Len(describe)}

C28_CopiesAgree ==
    /\ (/\ mainPm.valid /\ pmPc \in {"done", "panic"}
        /\ mainPm.fail = pmFail /\ mainPm.out = pmOut) =>
           /\ mainPm.ch = pmCh
           /\ mainPm.panic = (pmPc = "panic")
    /\ (/\ mainVm.valid /\ vmPc = "done"
        /\ mainVm.fail = vmFail /\ mainVm.out = vmOut) =>
           mainVm.ch = vmCh

\* both copies have sent the power once and the frequency of a capture
C28_Witness ==
    /\ pmPc = "done" /\ mainPm.valid
    /\ pmOut = <<"CPU Power: 5 mW GPU Power: 6 mW", "CPU 3 frequency: 2400 MHz">>
    /\ mainPm.out = pmOut
    /\ Len(pmCh) = 3
    /\ mainPm.ch = pmCh

IsMmSample(x) == SubSeq(x.name, 1, 7) = "macmon_"

\* C29: a scrape calls Collect of the powermetrics collector and of the
\* vm_stat collector and of no other: the macmon command is never started,
\* the macmon collector sends nothing, and the answer holds the powermetrics
\* metrics, then the vm_stat metrics, and no macmon metric.
C29_RegisteredSources ==
    /\ mmPc = "idle" /\ mmOut = <<>> /\ mmCh = <<>>
    /\ gatherPc = "collecting" => (pmPc # "idle" /\ vmPc # "idle")
    /\ SelectSeq(result, IsMmSample) = <<>>
    /\ gatherPc = "done" =>
           /\ result = pmCh \o vmCh
           /\ SelectSeq(result, IsPmSample) = pmCh
           /\ SelectSeq(result, IsVmSample) = vmCh

\* a scrape is answered with metrics of both registered collectors
C29_Witness ==
    /\ gatherPc = "done" /\ ~pmFail /\ ~vmFail
    /\ pmOut = <<"CPU Power: 7 mW">>
    /\ vmOut = <<"Pages free: 7.">>
    /\ Len(result) = 3
    /\ mmPc = "idle"

\* the lines of the powermetrics captures that report 0 MHz or a negative
\* residency
GuardedLines ==
    {"CPU 0 frequency: 0 MHz", "CPU 2 active residency: -1%"}

\* C30: every powermetrics_cpu_frequency_hertz metric sent has a value above
\* 0, every per-core residency metric sent a value of 0 or more, and every
\* per-core metric a core label with something after "cpu"; a capture made of
\* lines that report 0 MHz or a negative residency sends nothing.
C30_ValueGuards ==
    /\ \A i \in 1..Len(pmCh) :
           /\ pmCh[i].name = "powermetrics_cpu_frequency_hertz" => pmCh[i].value.m > 0
           /\ pmCh[i].name \in {"powermetrics_cpu_active_residency_percent",
                                "powermetrics_cpu_idle_residency_percent"} =>
                  pmCh[i].value.m >= 0
           /\ pmCh[i].name \in PerCoreNames =>
                  /\ Len(pmCh[i].labels) = 1
                  /\ Len(pmCh[i].labels[1]) > 3
                  /\ SubSeq(pmCh[i].labels[1], 1, 3) = "cpu"
    /\ (pmPc = "done" /\ \A i \in 1..Len(pmOut) : pmOut[i] \in GuardedLines) => pmCh = <<>>

\* Collect has returned from a capture of a 0 MHz line and a negative residency
C30_Witness ==
    /\ pmPc = "done" /\ ~pmFail
    /\ pmOut = <<"CPU 0 frequency: 0 MHz", "CPU 2 active residency: -1%">>
    /\ pmCh = <<>>

====
